---- MODULE Spec2Model ----
(***************************************************************************)
(* Model of tools/html2pptx_v2.py: the per-slide layout pipeline           *)
(* (HTMLToPPTXConverterV2.process_slide), its archetype renderers, the     *)
(* overflow compressor (_compress_if_needed) and the convert loop.         *)
(*                                                                         *)
(* Lengths are integers in thousandths of an inch (0.6 in = 600).          *)
(* A slide's markup is a sequence of element nodes in document order;      *)
(* node i's parent is an earlier node, or 0 for the slide container.       *)
(* Leaf sub-elements that no process_slide step selects (li, tr, .stat,    *)
(* .tier, .notification, code lines, ...) are summarised per node by the   *)
(* count "items"; every item holds text on a line of its own.              *)
(***************************************************************************)
EXTENDS Integers, Sequences, FiniteSets, TLC

VARIABLES pc, slide_num, dom, placed, shapes, log, handled, warnings, scale,
          css_vars, accent_color, color_vars, num_slides, deck, saved,
          py_warnings, stderr, call,
          fx_pc, fx_args, disk, disk0, fx_idx, fs_ops, fx_out, fx_totals

vars == <<pc, slide_num, dom, placed, shapes, log, handled, warnings, scale,
          css_vars, accent_color, color_vars, num_slides, deck, saved,
          py_warnings, stderr, call,
          fx_pc, fx_args, disk, disk0, fx_idx, fs_ops, fx_out, fx_totals>>

\* the state of a run of the style fixer
fixer == <<fx_pc, fx_args, disk, disk0, fx_idx, fs_ops, fx_out, fx_totals>>

\* the palette of the converter
palette == <<css_vars, accent_color, color_vars>>

\* what main and the warnings module have written
outputs == <<saved, py_warnings, stderr>>

\* ------------------------------------------------------------------------
\* Constants of the program (thousandths of an inch)
\* ------------------------------------------------------------------------
SLIDE_HEIGHT == 5625
GAP_TIGHT == 80
GAP_NORMAL == 120
GAP_SECTION == 250
CONTENT_LEFT == 800

\* ------------------------------------------------------------------------
\* Bounds of the model
\* ------------------------------------------------------------------------
MaxSlides == 2
MaxNodes == 3
MaxShapes == 2
\* characters of text held by one item sub-element
ItemLen == 5
\* runs of one rich text, and characters of one run
MaxRuns == 3
MaxRunLen == 2
\* CSS variables declared by one deck
MaxVars == 2
\* tenets or principles of one slide
MaxItems == 5
\* lines of the body of one card or of one list
MaxLines == 3
\* lines of one code block
MaxCodeLines == 31
\* files on the command line of the style fixer
MaxFiles == 2
\* declarations of one :root block
MaxDecls == 2
\* rules of one <style> block
MaxRules == 2
\* properties of one style attribute, style attributes of one deck
MaxProps == 2
MaxAttrs == 1

Max(a, b) == IF a >= b THEN a ELSE b
Min(a, b) == IF a <= b THEN a ELSE b
CeilDiv(a, b) == (a + b - 1) \div b

RECURSIVE SetMax(_)
SetMax(S) == IF S = {} THEN 0
             ELSE LET x == CHOOSE y \in S : TRUE
                  IN Max(x, SetMax(S \ {x}))

SetMin(S, default) == IF S = {} THEN default
                      ELSE LET x == CHOOSE y \in S : \A z \in S : y <= z
                           IN x

\* ------------------------------------------------------------------------
\* The markup tree (what the BeautifulSoup queries of the code see)
\* ------------------------------------------------------------------------
Elems(d) == 1..Len(d.nodes)

HasClass(d, e, c) == \E i \in 1..Len(d.nodes[e].cls) : d.nodes[e].cls[i] = c

HasAnyClass(d, e, S) == \E i \in 1..Len(d.nodes[e].cls) : d.nodes[e].cls[i] \in S

RECURSIVE Ancestors(_, _)
Ancestors(d, e) == IF e = 0 \/ d.nodes[e].parent = 0 THEN {}
                   ELSE {d.nodes[e].parent} \cup Ancestors(d, d.nodes[e].parent)

\* find_all(True) below e: the proper descendants of e (e = 0: the slide)
Desc(d, e) == {x \in Elems(d) : e = 0 \/ e \in Ancestors(d, x)}

Children(d, e) == {x \in Elems(d) : d.nodes[x].parent = e}

\* the nodes whose strings get_text(e) reads: e and everything below it
Subtree(d, e) == {e} \cup Desc(d, e)

OwnLines(d, e) == (IF d.nodes[e].text > 0 THEN 1 ELSE 0) + d.nodes[e].items

OwnLen(d, e) == d.nodes[e].text + d.nodes[e].items * ItemLen

RECURSIVE SumLines(_, _)
SumLines(d, S) == IF S = {} THEN 0
                  ELSE LET x == CHOOSE y \in S : TRUE
                       IN OwnLines(d, x) + SumLines(d, S \ {x})

RECURSIVE SumLen(_, _)
SumLen(d, S) == IF S = {} THEN 0
                ELSE LET x == CHOOSE y \in S : TRUE
                     IN OwnLen(d, x) + SumLen(d, S \ {x})

\* number of lines of get_text(e) (0 when it is the empty string)
TextLines(d, e) == SumLines(d, Subtree(d, e))

\* len(get_text(e)): the characters plus one separator between lines
get_text(d, e) == LET n == TextLines(d, e)
                  IN IF n = 0 THEN 0 ELSE SumLen(d, Subtree(d, e)) + (n - 1)

\* the nodes whose own strings appear in get_text(e)
TextNodes(d, e) == {x \in Subtree(d, e) : OwnLines(d, x) > 0}

\* ------------------------------------------------------------------------
\* Renderers.  Each returns the new cursor, the shapes it adds to the slide
\* (top, height, whether it is a table), the nodes whose text it prints
\* (emits), the elements it renders on behalf of the dispatched one (subs)
\* and the identities it adds to the handled set itself (marks).
\* ------------------------------------------------------------------------
Sh(top, height, table) == [top |-> top, height |-> height, table |-> table]

R(top, shs, emits, subs, marks) ==
    [top |-> top, shapes |-> shs, emits |-> emits, subs |-> subs, marks |-> marks]

Noop(top) == R(top, <<>>, {}, {}, {})

\* text taken from marked sub-elements when there are any, else get_text(el)
ItemOrText(d, el) == IF d.nodes[el].items > 0 THEN {el} ELSE TextNodes(d, el)

OwnItems(d, el) == IF d.nodes[el].items > 0 THEN {el} ELSE {}

_make_table(rows, top) == [shape |-> Sh(top, 350 * rows, TRUE), est_height |-> rows * 400 + 200]

_handle_architecture_diagram(d, el, top) ==
    IF TextLines(d, el) = 0 THEN Noop(top)
    ELSE LET num_lines == TextLines(d, el)
             h0 == Min(4500, Max(1000, num_lines * 180 + 300))
             avail0 == SLIDE_HEIGHT - top - 150
             available == IF avail0 < 800 THEN 800 ELSE avail0
             height == IF h0 > available THEN available ELSE h0
         IN R(top + height + GAP_NORMAL,
              <<Sh(top, height, FALSE), Sh(top + 50, height - 100, FALSE)>>,
              TextNodes(d, el), {}, {})

_handle_code_block(d, el, top) ==
    IF TextLines(d, el) = 0 THEN Noop(top)
    ELSE LET num_lines == TextLines(d, el)
             h0 == Min(4500, Max(1000, num_lines * 180 + 300))
             avail0 == SLIDE_HEIGHT - top - 150
             available == IF avail0 < 800 THEN 800 ELSE avail0
             height == IF h0 > available THEN available ELSE h0
         IN R(top + height + GAP_NORMAL,
              <<Sh(top, height, FALSE), Sh(top + 50, height - 100, FALSE)>>,
              TextNodes(d, el), {}, {})

\* find_all("tr"): the rows of the table and of the tables inside it
RECURSIVE SumItems(_, _)
SumItems(d, S) == IF S = {} THEN 0
                  ELSE LET x == CHOOSE y \in S : TRUE
                       IN d.nodes[x].items + SumItems(d, S \ {x})

_handle_html_table(d, el, top) ==
    LET tables == {x \in Subtree(d, el) : d.nodes[x].tag = "table"}
        rows == SumItems(d, tables)
    IN IF rows = 0 THEN Noop(top)
       ELSE LET t == _make_table(rows, top)
            IN R(top + t.est_height + GAP_NORMAL, <<t.shape>>,
                 {x \in tables : d.nodes[x].items > 0}, {}, {})

_handle_comparison_table(d, el, top) ==
    LET tables == {x \in Desc(d, el) : d.nodes[x].tag = "table"}
        rows == d.nodes[el].items
    IN IF tables # {}
       THEN LET table_el == SetMin(tables, 0)
                r == _handle_html_table(d, table_el, top)
            IN R(r.top, r.shapes, r.emits, {table_el}, {})
       ELSE IF rows = 0 THEN Noop(top)
       ELSE LET t == _make_table(rows, top)
            IN R(top + t.est_height + GAP_NORMAL, <<t.shape>>, {el}, {}, {})

RECURSIVE _determine_grid_cols(_, _)
_determine_grid_cols(container_classes, num_cards) ==
    IF container_classes = <<>> THEN (IF num_cards > 0 THEN Min(num_cards, 3) ELSE 1)
    ELSE LET cls == Head(container_classes)
         IN IF cls \in {"grid-2", "halves", "split"} THEN 2
            ELSE IF cls \in {"grid-3", "thirds"} THEN 3
            ELSE IF cls \in {"grid-4", "fourths"} THEN 4
            ELSE IF cls = "grid-5" THEN Min(5, num_cards)
            ELSE _determine_grid_cols(Tail(container_classes), num_cards)

\* _extract_card_content: title and body come from the first marked
\* sub-elements found below the card; without any, from all of its text
_extract_card_content(d, card_el) ==
    LET marked == {x \in Subtree(d, card_el) : d.nodes[x].items > 0}
    IN IF marked # {} THEN {SetMin(marked, 0)} ELSE TextNodes(d, card_el)

RECURSIVE CodeBlocksAfter(_, _, _)
CodeBlocksAfter(d, code_blocks, r) ==
    IF code_blocks = {} THEN r
    ELSE LET code_el == SetMin(code_blocks, 0)
             c == _handle_code_block(d, code_el, r.top)
         IN CodeBlocksAfter(d, code_blocks \ {code_el},
                            R(c.top, r.shapes \o c.shapes, r.emits \cup c.emits,
                              r.subs \cup {code_el}, r.marks))

card_classes == {"card", "module-card", "tool-card", "track-card"}

_handle_card_grid(d, container, top) ==
    LET children == Children(d, container)
        anonymous == d.nodes[container].items
        n_items == Cardinality(children) + anonymous
        marks == Desc(d, container)
        code_blocks_after == {c \in children : HasClass(d, c, "code-block")}
        cells == children \ code_blocks_after
        n_table == Cardinality(cells) + anonymous
        cols == _determine_grid_cols(d.nodes[container].cls, n_items)
        actual_cols == Min(cols, n_table)
        actual_rows == CeilDiv(n_table, actual_cols)
        grid_height == actual_rows * 1800 + (actual_rows - 1) * 150
        cardlike(c) == HasAnyClass(d, c, card_classes)
                       \/ \E x \in Desc(d, c) : HasAnyClass(d, x, card_classes)
        cell_emits == UNION {IF cardlike(c) THEN _extract_card_content(d, c)
                             ELSE TextNodes(d, c) : c \in cells}
                      \cup OwnItems(d, container)
        table == IF n_table > 0
                 THEN R(top + grid_height + GAP_NORMAL,
                        <<Sh(top, 1500 * actual_rows, TRUE)>>, cell_emits, cells, marks)
                 ELSE R(top, <<>>, {}, {}, marks)
    IN IF n_items = 0 THEN Noop(top)
       ELSE CodeBlocksAfter(d, code_blocks_after, table)

_handle_standalone_card(d, el, top) ==
    R(top + 1500 + GAP_NORMAL, <<Sh(top, 1200, FALSE)>>,
      _extract_card_content(d, el), {}, {})

\* _render_tenet_shape: the accent bar and the text frame
_render_tenet_shape(left, top) ==
    <<[top |-> top, height |-> 1000, table |-> FALSE, left |-> left],
      [top |-> top, height |-> 1000, table |-> FALSE, left |-> left + 120]>>

\* a loop that keeps one cursor for both columns
RECURSIVE ColumnLoopOneCursor(_, _, _, _, _)
ColumnLoopOneCursor(i, num, use_two_cols, col_tops, shs) ==
    IF i >= num THEN [col_tops |-> col_tops, shapes |-> shs]
    ELSE LET col == IF use_two_cols THEN i % 2 ELSE 0
             ct == col_tops[1]
         IN ColumnLoopOneCursor(i + 1, num, use_two_cols,
                       <<ct + 1200 + GAP_TIGHT, ct + 1200 + GAP_TIGHT>>,
                       shs \o _render_tenet_shape(
                                  CONTENT_LEFT + col * (IF use_two_cols THEN 4400 ELSE 0), ct))

\* the loop shared by _handle_principles and _handle_tenets: item i goes to
\* column i % 2 in two-column mode, each column keeping its own cursor
RECURSIVE ColumnLoop(_, _, _, _, _)
ColumnLoop(i, num, use_two_cols, col_tops, shs) ==
    IF i >= num THEN [col_tops |-> col_tops, shapes |-> shs]
    ELSE LET col == IF use_two_cols THEN i % 2 ELSE 0
             ct == col_tops[col + 1]
         IN ColumnLoop(i + 1, num, use_two_cols,
                       [col_tops EXCEPT ![col + 1] = ct + 1200 + GAP_TIGHT],
                       shs \o _render_tenet_shape(
                                  CONTENT_LEFT + col * (IF use_two_cols THEN 4400 ELSE 0), ct))

_handle_principles(d, el, top) ==
    LET principles == {x \in Desc(d, el) : HasClass(d, x, "principle")}
        num == Cardinality(principles) + d.nodes[el].items
        loop == ColumnLoop(0, num, num >= 4, <<top, top>>, <<>>)
    IN IF num = 0 THEN Noop(top)
       ELSE R(Max(loop.col_tops[1], loop.col_tops[2]) + GAP_NORMAL, loop.shapes,
              UNION {TextNodes(d, p) : p \in principles} \cup OwnItems(d, el),
              principles, principles)

_handle_tenets(d, elements, top) ==
    LET num == Cardinality(elements)
        loop == ColumnLoop(0, num, num >= 4, <<top, top>>, <<>>)
    IN IF num = 0 THEN Noop(top)
       ELSE R(Max(loop.col_tops[1], loop.col_tops[2]) + GAP_NORMAL, loop.shapes,
              UNION {ItemOrText(d, x) : x \in elements}, {}, elements)

\* a row of boxes joined by arrows: box, arrow, box, ..., box
BoxRow(n, top, box_height) ==
    [k \in 1..(2 * n - 1) |->
        IF k % 2 = 1 THEN Sh(top, box_height, FALSE)
        ELSE Sh(top + box_height \div 2 - 50, 100, FALSE)]

RECURSIVE FlowRows(_, _, _, _)
FlowRows(row_idx, rows, num_steps, top) ==
    IF row_idx >= rows THEN <<>>
    ELSE BoxRow(Min(4, num_steps - row_idx * 4), top + row_idx * 1300, 1000)
         \o FlowRows(row_idx + 1, rows, num_steps, top)

_handle_flow_diagram(d, el, top) ==
    LET num_steps == d.nodes[el].items
        rows == CeilDiv(num_steps, 4)
    IN IF num_steps = 0 THEN Noop(top)
       ELSE R(top + rows * 1300 + GAP_NORMAL, FlowRows(0, rows, num_steps, top),
              {el}, {}, {})

\* the sides are items; they carry a title and no list entries here
_handle_versus(d, el, top) ==
    LET sides == d.nodes[el].items
        max_items == Max(Max(0, 0), 3)
        height == 600 + max_items * 300
    IN IF sides < 2 THEN Noop(top)
       ELSE R(top + Max(2000, height) + GAP_NORMAL,
              <<Sh(top, 2000, FALSE), Sh(top + 800, 400, FALSE), Sh(top, 2000, FALSE)>>,
              {el}, {}, {})

_handle_feature_list(d, el, top) ==
    LET num_items == IF d.nodes[el].items > 0 THEN d.nodes[el].items
                     ELSE TextLines(d, el)
        height == Max(500, num_items * 350)
    IN IF num_items = 0 THEN Noop(top)
       ELSE R(top + height + GAP_NORMAL, <<Sh(top, height, FALSE)>>,
              ItemOrText(d, el), {}, {})

_handle_notification_stack(d, el, top) ==
    LET n == d.nodes[el].items
    IN IF n = 0 THEN Noop(top)
       ELSE R(top + n * (500 + GAP_TIGHT) + GAP_NORMAL,
              [k \in 1..n |-> Sh(top + (k - 1) * (500 + GAP_TIGHT), 500, FALSE)],
              {el}, {}, {})

_handle_stats(d, el, top) ==
    LET num == d.nodes[el].items
    IN IF num = 0 THEN Noop(top)
       ELSE R(top + 1000 + GAP_NORMAL, [k \in 1..num |-> Sh(top, 900, FALSE)],
              {el}, {}, {})

_handle_big_stat(d, elements, top) ==
    LET num == Cardinality(elements)
    IN IF num = 0 THEN Noop(top)
       ELSE R(top + 1400 + GAP_NORMAL, [k \in 1..num |-> Sh(top, 1200, FALSE)],
              UNION {ItemOrText(d, x) : x \in elements}, {}, elements)

_handle_tier_stack(d, el, top) ==
    LET n == d.nodes[el].items
    IN IF n = 0 THEN Noop(top)
       ELSE R(top + n * (600 + GAP_TIGHT) + GAP_NORMAL,
              [k \in 1..n |-> Sh(top + (k - 1) * (600 + GAP_TIGHT), 600, FALSE)],
              {el}, {}, {})

_handle_diagram(d, el, top) ==
    LET num == d.nodes[el].items
    IN IF num = 0 THEN Noop(top)
       ELSE R(top + 1000 + 300 + GAP_NORMAL, BoxRow(num, top, 1000), {el}, {}, {})

_handle_before_after(d, el, top) ==
    R(top + 2000 + GAP_NORMAL, <<Sh(top, 2000, FALSE), Sh(top, 2000, FALSE)>>,
      OwnItems(d, el), {}, {})

_handle_token_display(d, el, top) ==
    LET num_lines == TextLines(d, el)
        height == Max(500, num_lines * 220 + 200)
    IN IF get_text(d, el) = 0 THEN Noop(top)
       ELSE R(top + height + GAP_NORMAL,
              <<Sh(top, height, FALSE), Sh(top + 50, height - 100, FALSE)>>,
              TextNodes(d, el), {}, {})

\* extract_items: the li entries, else the lines of the text; 0 for None
extract_items(d, el) ==
    IF el = 0 THEN 0
    ELSE IF d.nodes[el].items > 0 THEN d.nodes[el].items ELSE TextLines(d, el)

_handle_good_bad_pattern(d, good_el, bad_el, top) ==
    LET bad_lines == extract_items(d, bad_el)
        good_lines == extract_items(d, good_el)
        max_items == Max(Max(bad_lines, good_lines), 2)
        height == Max(1000, max_items * 300 + 400)
    IN R(top + height + GAP_NORMAL,
         (IF bad_lines > 0 THEN <<Sh(top, height, FALSE)>> ELSE <<>>)
         \o (IF good_lines > 0 THEN <<Sh(top, height, FALSE)>> ELSE <<>>),
         (IF bad_el = 0 THEN {} ELSE ItemOrText(d, bad_el))
         \cup (IF good_el = 0 THEN {} ELSE ItemOrText(d, good_el)),
         {}, {})

_handle_summary_row(d, elements, top) ==
    LET with_row == {x \in elements : d.nodes[x].items > 0 \/ get_text(d, x) > 0}
        rows == Cardinality(with_row)
        t == _make_table(rows, top)
    IN IF rows = 0 THEN R(top, <<>>, {}, {}, elements)
       ELSE R(top + t.est_height + GAP_NORMAL, <<t.shape>>,
              UNION {ItemOrText(d, x) : x \in with_row}, {}, elements)

_handle_body_text(d, el, top) ==
    LET num_lines == TextLines(d, el)
        height == Max(350, num_lines * 250 + 100)
    IN IF get_text(d, el) = 0 THEN Noop(top)
       ELSE R(top + height + GAP_NORMAL, <<Sh(top, height, FALSE)>>,
              TextNodes(d, el), {}, {})

_handle_title_meta(d, el, current_top) ==
    LET top == Max(current_top, 4500)
    IN IF get_text(d, el) = 0 THEN Noop(current_top)
       ELSE R(top + 350, <<Sh(top, 300, FALSE)>>, TextNodes(d, el), {}, {})

_handle_highlight_box(d, el, current_top) ==
    LET top == Min(current_top, SLIDE_HEIGHT - 850)
    IN R(top + 800 + GAP_NORMAL, <<Sh(top, 700, FALSE)>>, TextNodes(d, el), {}, {})

_handle_quote(d, el, top) ==
    R(top + 1000 + GAP_NORMAL, <<Sh(top, 1000, FALSE)>>, TextNodes(d, el), {}, {})

_handle_small_text(d, el, current_top) ==
    LET top == Max(current_top, 4800)
    IN IF get_text(d, el) = 0 THEN Noop(current_top)
       ELSE R(top + 300, <<Sh(top, 300, FALSE)>>, TextNodes(d, el), {}, {})

\* ------------------------------------------------------------------------
\* process_slide: the header zone, then the detectors in call order.
\* st is the state of one pass: the cursor (top), the handled set, the
\* shapes placed so far and the record of every dispatch (log).
\* ------------------------------------------------------------------------
RECURSIVE SortedSeq(_)
SortedSeq(S) == IF S = {} THEN <<>>
                ELSE LET x == SetMin(S, 0) IN <<x>> \o SortedSeq(S \ {x})

Tagged(shs, step, els) ==
    [k \in 1..Len(shs) |->
        [top |-> shs[k].top, height |-> shs[k].height, table |-> shs[k].table,
         by |-> step, el |-> SetMin(els, 0)]]

\* the effect of one dispatch: the step adds the elements to handled and
\* calls the renderer, whose result moves the cursor
Apply(st, step, els, r) ==
    [top |-> r.top,
     handled |-> st.handled \cup els \cup r.marks,
     shapes |-> st.shapes \o Tagged(r.shapes, step, els),
     log |-> Append(st.log, [step |-> step, els |-> els, top_in |-> st.top,
                             top_out |-> r.top, n |-> Len(r.shapes),
                             emits |-> r.emits, subs |-> r.subs])]

grid_classes == {"thirds", "halves", "fourths", "grid", "grid-2", "grid-3",
                 "grid-4", "grid-5", "tools-grid", "split"}

_content_trigger == {"code-block", "architecture-diagram", "comparison-table",
                     "thirds", "halves", "fourths", "grid", "grid-2", "grid-3",
                     "grid-4", "grid-5", "tools-grid", "flow-diagram", "workflow",
                     "flow", "notification-stack", "stat-grid", "stat-row",
                     "velocity-grid", "tier-stack", "before-after", "versus",
                     "diagram", "principles-grid", "card", "module-card", "tool-card"}

\* the header kinds in the order of their loops, with the elements each selects
HeaderKinds == <<"label", "number", "section_title", "headline", "medium_headline", "subhead">>

HeaderSelects(kind, d, el) ==
    CASE kind = "label" -> HasClass(d, el, "section-label")
      [] kind = "number" -> HasClass(d, el, "section-number")
      [] kind = "section_title" -> HasClass(d, el, "section-title")
      [] kind = "headline" ->
            /\ d.nodes[el].tag \in {"h1", "h2"}
            /\ ~HasClass(d, el, "section-title")
            /\ \/ d.nodes[el].tag = "h1"
               \/ HasClass(d, el, "headline")
               \/ HasClass(d, el, "big-text")
      [] kind = "medium_headline" -> HasClass(d, el, "medium-headline")
      [] kind = "subhead" -> HasClass(d, el, "subhead")

\* one find_all loop of the header zone: every selected, unhandled element
\* with text becomes a part and is added to handled
RECURSIVE HeaderLoops(_, _, _)
HeaderLoops(d, k, h) ==
    IF k > Len(HeaderKinds) THEN h
    ELSE LET kind == HeaderKinds[k]
             new == {el \in Elems(d) : /\ HeaderSelects(kind, d, el)
                                       /\ el \notin h.handled
                                       /\ get_text(d, el) > 0}
             parts == [i \in 1..Cardinality(new) |->
                          [kind |-> kind, el |-> SortedSeq(new)[i]]]
         IN HeaderLoops(d, k + 1, [handled |-> h.handled \cup new,
                                   parts |-> h.parts \o parts])

\* a header zone that leaves every body-text to the later steps
EarlyBodyTextSkipped(d, children, h) == h

\* early body-text: the direct children before the first content element
RECURSIVE EarlyBodyText(_, _, _)
EarlyBodyText(d, children, h) ==
    IF children = <<>> THEN h
    ELSE LET child == Head(children)
         IN IF child \in h.handled THEN EarlyBodyText(d, Tail(children), h)
            ELSE IF HasAnyClass(d, child, _content_trigger) \/ d.nodes[child].tag = "table"
            THEN h
            ELSE IF HasClass(d, child, "body-text") /\ get_text(d, child) > 0
            THEN EarlyBodyText(d, Tail(children),
                     [handled |-> h.handled \cup {child},
                      parts |-> Append(h.parts, [kind |-> "body_text", el |-> child])])
            ELSE EarlyBodyText(d, Tail(children), h)

\* the height estimate of one header part
PartHeight(d, part) ==
    CASE part.kind \in {"label", "number"} -> 350
      [] part.kind = "headline" ->
            LET _lines == Max(1, get_text(d, part.el) \div 35 + 1)
                _per == IF HasClass(d, part.el, "big-text") \/ d.nodes[part.el].tag = "h1"
                        THEN 750 ELSE 600
            IN _lines * _per + 200
      [] part.kind = "section_title" -> 700
      [] part.kind = "medium_headline" -> 700
      [] part.kind = "subhead" -> 500
      [] part.kind = "body_text" -> TextLines(d, part.el) * 250 + 150

RECURSIVE SumParts(_, _)
SumParts(d, parts) == IF parts = <<>> THEN 0
                      ELSE PartHeight(d, Head(parts)) + SumParts(d, Tail(parts))

header_zone(d, st) ==
    LET h1 == HeaderLoops(d, 1, [handled |-> st.handled, parts |-> <<>>])
        h == IF h1.parts # <<>>
             THEN EarlyBodyText(d, SortedSeq(Children(d, 0)), h1) ELSE h1
        _hdr_h == 300 + SumParts(d, h.parts)
        _frame_top == IF d.centered THEN 400 ELSE 500
        _frame_h == IF d.centered THEN SLIDE_HEIGHT - 800 ELSE _hdr_h
        els == {h.parts[i].el : i \in 1..Len(h.parts)}
    IN IF h.parts = <<>> THEN st
       ELSE Apply(st, "header", els,
                  R(_frame_top + _frame_h + GAP_SECTION,
                    <<Sh(_frame_top, _frame_h, FALSE)>>,
                    UNION {TextNodes(d, e) : e \in els}, {}, {}))

\* the classes the find_all of each step asks for
find_all_class ==
    [architecture_diagram |-> {"architecture-diagram"},
     comparison_table |-> {"comparison-table"},
     card_grids |-> grid_classes,
     standalone_cards |-> card_classes,
     principles |-> {"principles-grid"},
     principle |-> {"principle"},
     code_blocks |-> {"code-block"},
     flow_diagrams |-> {"flow-diagram", "workflow", "flow"},
     tenets |-> {"tenet"},
     versus |-> {"versus"},
     feature_lists |-> {"feature-list"},
     notification_stacks |-> {"notification-stack"},
     stats |-> {"stat-grid", "stat-row", "velocity-grid"},
     big_stats |-> {"big-stat"},
     tier_stacks |-> {"tier-stack"},
     tier_rows |-> {"tier-row"},
     diagrams |-> {"diagram"},
     before_after |-> {"before-after"},
     token_display |-> {"token-display"},
     good_bad |-> {"good-pattern", "bad-pattern"},
     summary_rows |-> {"summary-row"},
     body_text |-> {"body-text"},
     title_meta |-> {"title-meta"},
     highlight_boxes |-> {"highlight-box"},
     quotes |-> {"quote"},
     small_text |-> {"small-text"}]

\* the elements the loop of a step takes, before the handled test
Selects(step, d, el) ==
    CASE step = "tables" -> d.nodes[el].tag = "table"
      [] step = "fallback" -> d.nodes[el].parent = 0
      [] step = "standalone_cards" ->
            /\ HasAnyClass(d, el, card_classes)
            /\ ~(d.nodes[el].parent # 0
                 /\ HasAnyClass(d, d.nodes[el].parent, grid_classes))
      [] step = "diagrams" ->
            /\ HasClass(d, el, "diagram")
            /\ ~HasAnyClass(d, el, {"architecture-diagram", "flow-diagram"})
      [] OTHER -> HasAnyClass(d, el, find_all_class[step])

\* the body of a loop for one selected, unhandled element
Visit(step, d, el, st) ==
    CASE step = "architecture_diagram" ->
            Apply(st, step, {el}, _handle_architecture_diagram(d, el, st.top))
      [] step = "comparison_table" ->
            Apply(st, step, {el}, _handle_comparison_table(d, el, st.top))
      [] step = "card_grids" -> Apply(st, step, {el}, _handle_card_grid(d, el, st.top))
      [] step = "standalone_cards" ->
            Apply(st, step, {el}, _handle_standalone_card(d, el, st.top))
      [] step = "principles" -> Apply(st, step, {el}, _handle_principles(d, el, st.top))
      [] step = "principle" ->
            Apply(st, step, {el},
                  R(st.top + 1200 + GAP_TIGHT, _render_tenet_shape(CONTENT_LEFT, st.top),
                    TextNodes(d, el), {}, {}))
      [] step = "code_blocks" -> Apply(st, step, {el}, _handle_code_block(d, el, st.top))
      [] step = "flow_diagrams" -> Apply(st, step, {el}, _handle_flow_diagram(d, el, st.top))
      [] step = "versus" -> Apply(st, step, {el}, _handle_versus(d, el, st.top))
      [] step = "tables" -> Apply(st, step, {el}, _handle_html_table(d, el, st.top))
      [] step = "feature_lists" ->
            IF \E a \in Ancestors(d, el) : HasClass(d, a, "versus")
            THEN Apply(st, step, {el}, Noop(st.top))
            ELSE Apply(st, step, {el}, _handle_feature_list(d, el, st.top))
      [] step = "notification_stacks" ->
            Apply(st, step, {el}, _handle_notification_stack(d, el, st.top))
      [] step = "stats" -> Apply(st, step, {el}, _handle_stats(d, el, st.top))
      [] step = "tier_stacks" -> Apply(st, step, {el}, _handle_tier_stack(d, el, st.top))
      [] step = "diagrams" -> Apply(st, step, {el}, _handle_diagram(d, el, st.top))
      [] step = "before_after" -> Apply(st, step, {el}, _handle_before_after(d, el, st.top))
      [] step = "token_display" -> Apply(st, step, {el}, _handle_token_display(d, el, st.top))
      [] step = "body_text" -> Apply(st, step, {el}, _handle_body_text(d, el, st.top))
      [] step = "title_meta" -> Apply(st, step, {el}, _handle_title_meta(d, el, st.top))
      [] step = "highlight_boxes" ->
            Apply(st, step, {el}, _handle_highlight_box(d, el, st.top))
      [] step = "quotes" -> Apply(st, step, {el}, _handle_quote(d, el, st.top))
      [] step = "small_text" -> Apply(st, step, {el}, _handle_small_text(d, el, st.top))
      [] step = "fallback" ->
            IF \/ get_text(d, el) < 3
               \/ \E child \in Desc(d, el) : child \in st.handled
            THEN st
            ELSE Apply(st, step, {el},
                       R(st.top + 500 + GAP_NORMAL, <<Sh(st.top, 400, FALSE)>>,
                         TextNodes(d, el), {}, {}))

\* for el in find_all(...): if id(el) in handled: continue; ...
RECURSIVE ForEach(_, _, _, _)
ForEach(step, d, i, st) ==
    IF i > Len(d.nodes) THEN st
    ELSE ForEach(step, d, i + 1,
                 IF Selects(step, d, i) /\ i \notin st.handled
                 THEN Visit(step, d, i, st) ELSE st)

\* the steps that collect all unhandled matches and render them together
Unhandled(step, d, st) == {el \in Elems(d) : Selects(step, d, el) /\ el \notin st.handled}

tier_rows(d, st) ==
    LET rows == Unhandled("tier_rows", d, st)
        t == _make_table(Cardinality(rows), st.top)
    IN IF rows = {} THEN st
       ELSE Apply(st, "tier_rows", rows,
                  R(st.top + t.est_height + GAP_NORMAL, <<t.shape>>,
                    UNION {OwnItems(d, x) : x \in rows}, {}, {}))

good_bad(d, st) ==
    LET goods == {el \in Elems(d) : HasClass(d, el, "good-pattern") /\ el \notin st.handled}
        good_el == SetMin(goods, 0)
        h == IF good_el = 0 THEN st.handled ELSE st.handled \cup {good_el}
        bads == {el \in Elems(d) : HasClass(d, el, "bad-pattern") /\ el \notin h}
        bad_el == SetMin(bads, 0)
    IN IF good_el = 0 /\ bad_el = 0 THEN st
       ELSE Apply(st, "good_bad", {good_el, bad_el} \ {0},
                  _handle_good_bad_pattern(d, good_el, bad_el, st.top))

Aggregate(step, d, st) ==
    LET els == Unhandled(step, d, st)
    IN IF els = {} THEN st
       ELSE CASE step = "tenets" -> Apply(st, step, els, _handle_tenets(d, els, st.top))
              [] step = "big_stats" -> Apply(st, step, els, _handle_big_stat(d, els, st.top))
              [] step = "summary_rows" ->
                    Apply(st, step, els, _handle_summary_row(d, els, st.top))

RunStep(step, d, st) ==
    CASE step = "header" -> header_zone(d, st)
      [] step \in {"tenets", "big_stats", "summary_rows"} -> Aggregate(step, d, st)
      [] step = "tier_rows" -> tier_rows(d, st)
      [] step = "good_bad" -> good_bad(d, st)
      [] OTHER -> ForEach(step, d, 1, st)

\* a call order with the tenets ahead of the code blocks
StepOrderTenetsEarly ==
    <<"header", "architecture_diagram", "comparison_table", "card_grids",
      "standalone_cards", "principles", "principle", "tenets", "code_blocks",
      "flow_diagrams", "versus", "tables", "feature_lists", "notification_stacks",
      "stats", "big_stats", "tier_stacks", "tier_rows", "diagrams", "before_after",
      "token_display", "good_bad", "summary_rows", "body_text", "title_meta",
      "highlight_boxes", "quotes", "small_text", "fallback">>

\* the call order of process_slide
StepOrder ==
    <<"header", "architecture_diagram", "comparison_table", "card_grids",
      "standalone_cards", "principles", "principle", "code_blocks", "flow_diagrams",
      "tenets", "versus", "tables", "feature_lists", "notification_stacks", "stats",
      "big_stats", "tier_stacks", "tier_rows", "diagrams", "before_after",
      "token_display", "good_bad", "summary_rows", "body_text", "title_meta",
      "highlight_boxes", "quotes", "small_text", "fallback">>

RECURSIVE RunSteps(_, _, _)
RunSteps(d, k, st) ==
    IF k > Len(StepOrder) THEN st
    ELSE CHOOSE r \in {RunSteps(d, k + 1, s) : s \in {RunStep(StepOrder[k], d, st)}} : TRUE

\* process_slide up to the overflow pass
\* locals whose cursor starts lower the more slides the deck has
locals_from_deck ==
    [top |-> 600 + GAP_SECTION * num_slides, handled |-> {}, shapes |-> <<>>, log |-> <<>>]

\* current_top = 0.6 and handled = set() at the start of process_slide
fresh_locals == [top |-> 600, handled |-> {}, shapes |-> <<>>, log |-> <<>>]

render_slide(d) == RunSteps(d, 1, fresh_locals)

\* ------------------------------------------------------------------------
\* _compress_if_needed: the overflow pass over the shapes of one slide.
\* The scale is the exact ratio num/den; int() truncates towards zero.
\* ------------------------------------------------------------------------
Bottoms(shs) == {shs[k].top + shs[k].height : k \in 1..Len(shs)}

actual_bottom(shs) == SetMax(Bottoms(shs))

\* a start at the least top of all, trivial shapes included
content_start_of_all(shs) ==
    SetMin({shs[k].top : k \in 1..Len(shs)}, 300)

content_start(shs) ==
    SetMin({shs[k].top : k \in {j \in 1..Len(shs) : shs[j].top >= 300}}, 300)

Trunc(a, b) == IF a >= 0 THEN a \div b ELSE -((-a) \div b)

NoScale == [applied |-> FALSE, num |-> 1, den |-> 1, floored |-> FALSE]

\* a floor of 0.30 instead of 0.40
floor_scale_at_30(num, den) ==
    IF 10 * num < 3 * den
    THEN [applied |-> TRUE, num |-> 3, den |-> 10, floored |-> TRUE]
    ELSE [applied |-> TRUE, num |-> num, den |-> den, floored |-> FALSE]

\* if scale < 0.40: scale = 0.40, and the warning
floor_scale(num, den) ==
    IF 5 * num < 2 * den
    THEN [applied |-> TRUE, num |-> 2, den |-> 5, floored |-> TRUE]
    ELSE [applied |-> TRUE, num |-> num, den |-> den, floored |-> FALSE]

\* a loop body that moves the shapes and scales no height
scale_shape_tops_only(s, start, sc) ==
    IF s.top >= start
    THEN [s EXCEPT !.top = start + Trunc((s.top - start) * sc.num, sc.den)]
    ELSE s

\* a loop body that scales the height of the tables too
scale_shape_tables_too(s, start, sc) ==
    IF s.top >= start
    THEN [s EXCEPT !.top = start + Trunc((s.top - start) * sc.num, sc.den),
                   !.height = Trunc(s.height * sc.num, sc.den)]
    ELSE s

\* a loop body that scales the top from the top of the slide
scale_shape_from_zero(s, start, sc) ==
    IF s.top >= start
    THEN [s EXCEPT !.top = Trunc(s.top * sc.num, sc.den),
                   !.height = IF s.table THEN s.height
                              ELSE Trunc(s.height * sc.num, sc.den)]
    ELSE s

\* the loop body: move the shape, and scale its height unless it is a table
scale_shape(s, start, sc) ==
    IF s.top >= start
    THEN [s EXCEPT !.top = start + Trunc((s.top - start) * sc.num, sc.den),
                   !.height = IF s.table THEN s.height
                              ELSE Trunc(s.height * sc.num, sc.den)]
    ELSE s

_compress_if_needed(shs, n, warns) ==
    LET unchanged == [shapes |-> shs, warnings |-> warns, scale |-> NoScale]
        start == content_start(shs)
        content_height == actual_bottom(shs) - start
        usable == SLIDE_HEIGHT - 100
        sc == floor_scale(usable - start, content_height)
    IN IF shs = <<>> THEN unchanged
       ELSE IF actual_bottom(shs) <= SLIDE_HEIGHT THEN unchanged
       ELSE IF content_height <= 0 THEN unchanged
       ELSE IF usable - start >= content_height THEN unchanged
       ELSE [shapes |-> [k \in 1..Len(shs) |-> scale_shape(shs[k], start, sc)],
             warnings |-> IF sc.floored THEN Append(warns, n) ELSE warns,
             scale |-> sc]

\* ------------------------------------------------------------------------
\* Formatted text runs.  A text is a sequence of characters; " " stands for
\* any whitespace character (space or newline), "a" for any other one.
\* A run is a text with its formatting.
\* ------------------------------------------------------------------------
Run(text, bold, italic, color) ==
    [text |-> text, bold |-> bold, italic |-> italic, color |-> color]

RECURSIVE lstrip(_)
lstrip(t) == IF t # <<>> /\ Head(t) = " " THEN lstrip(Tail(t)) ELSE t

RECURSIVE rstrip(_)
rstrip(t) == IF t # <<>> /\ t[Len(t)] = " " THEN rstrip(SubSeq(t, 1, Len(t) - 1)) ELSE t

isspace(t) == t # <<>> /\ \A i \in 1..Len(t) : t[i] = " "

\* a loop that merges a run into the previous one only at every second run
RECURSIVE rich_merge_pairs(_, _, _)
rich_merge_pairs(runs, i, merged) ==
    IF i > Len(runs) THEN merged
    ELSE LET run == runs[i]
             n == Len(merged)
         IN IF /\ n > 0
               /\ i % 2 = 0
               /\ merged[n].bold = run.bold
               /\ merged[n].italic = run.italic
               /\ merged[n].color = run.color
            THEN rich_merge_pairs(runs, i + 1,
                     [merged EXCEPT ![n].text = merged[n].text \o run.text])
            ELSE rich_merge_pairs(runs, i + 1, Append(merged, run))

\* the loop of get_rich_text that merges a run into the previous one when
\* bold, italic and color are equal
RECURSIVE rich_merge_loop(_, _, _)
rich_merge_loop(runs, i, merged) ==
    IF i > Len(runs) THEN merged
    ELSE LET run == runs[i]
             n == Len(merged)
         IN IF /\ n > 0
               /\ merged[n].bold = run.bold
               /\ merged[n].italic = run.italic
               /\ merged[n].color = run.color
            THEN rich_merge_loop(runs, i + 1,
                     [merged EXCEPT ![n].text = merged[n].text \o run.text])
            ELSE rich_merge_loop(runs, i + 1, Append(merged, run))

\* the merge step of get_rich_text: the loop, then the first run loses its
\* leading and the last its trailing whitespace, then empty runs are dropped
rich_merge(runs) ==
    LET merged == rich_merge_loop(runs, 1, <<>>)
        n == Len(merged)
        first == [merged EXCEPT ![1].text = lstrip(merged[1].text)]
        last == [first EXCEPT ![n].text = rstrip(first[n].text)]
    IN IF n = 0 THEN <<>>
       ELSE SelectSeq(last, LAMBDA r : r.text # <<>>)

\* the merge step of _extract_code_runs: runs of equal color and bold
RECURSIVE code_merge_loop(_, _, _)
code_merge_loop(runs, i, merged) ==
    IF i > Len(runs) THEN merged
    ELSE LET r == runs[i]
             n == Len(merged)
         IN IF n > 0 /\ merged[n].color = r.color /\ merged[n].bold = r.bold
            THEN code_merge_loop(runs, i + 1,
                     [merged EXCEPT ![n].text = merged[n].text \o r.text])
            ELSE code_merge_loop(runs, i + 1, Append(merged, r))

code_merge(runs) == code_merge_loop(runs, 1, <<>>)

\* the texts of at most MaxRunLen characters
Texts == UNION {[1..n -> {"a", " "}] : n \in 0..MaxRunLen}

\* plain, bold, italic, highlighted
Formats == {<<FALSE, FALSE, "none">>, <<TRUE, FALSE, "none">>,
            <<FALSE, TRUE, "none">>, <<FALSE, FALSE, "MS_CYAN">>}

Runs == {Run(t, f[1], f[2], f[3]) : t \in Texts, f \in Formats}

\* the runs the descendants loop of get_rich_text appends: a string that is
\* empty or all whitespace is skipped
RichRuns == {r \in Runs : r.text # <<>> /\ ~isspace(r.text)}

\* the runs the descendants loop of _extract_code_runs appends: an empty
\* string is skipped, and no run is italic
CodeRuns == {r \in Runs : r.text # <<>> /\ ~r.italic}

RunSeqs(S) == UNION {[1..n -> S] : n \in 0..MaxRuns}

\* ------------------------------------------------------------------------
\* The palette.  A value of a CSS variable is a sequence of characters, a
\* color is <<red, green, blue>>, None is the absence of a color.
\* ------------------------------------------------------------------------
None == <<>>

MS_BLUE == <<0, 120, 212>>
MS_GREEN == <<0, 204, 106>>
MS_ORANGE == <<255, 159, 10>>
MS_RED == <<255, 69, 58>>
WHITE == <<255, 255, 255>>
GRAY_70 == <<179, 179, 179>>

HexDigits == <<"0", "1", "2", "3", "4", "5", "6", "7", "8", "9",
               "a", "b", "c", "d", "e", "f">>

IsHexDigit(c) == \E i \in 1..16 : HexDigits[i] = c

HexValue(c) == (CHOOSE i \in 1..16 : HexDigits[i] = c) - 1

RECURSIVE lstrip_hash(_)
lstrip_hash(t) == IF t # <<>> /\ Head(t) = "#" THEN lstrip_hash(Tail(t)) ELSE t

\* hex_to_rgb: None unless three or six hexadecimal digits follow the "#";
\* int(.., 16) raises ValueError on another character, which is caught
hex_to_rgb(hex_str) ==
    LET h == lstrip_hash(hex_str)
        six == IF Len(h) = 3 THEN <<h[1], h[1], h[2], h[2], h[3], h[3]>> ELSE h
    IN IF Len(six) # 6 THEN None
       ELSE IF \E i \in 1..6 : ~IsHexDigit(six[i]) THEN None
       ELSE <<16 * HexValue(six[1]) + HexValue(six[2]),
              16 * HexValue(six[3]) + HexValue(six[4]),
              16 * HexValue(six[5]) + HexValue(six[6])>>

startswith_hash(val) == val # <<>> /\ Head(val) = "#"

\* css_vars.get(var_name, "")
css_get(css, name) == IF name \in DOMAIN css THEN css[name] ELSE <<>>

\* resolve_accent_color: --color-accent, then --accent, then the blue
resolve_accent_color(css) ==
    LET parsed(name) == IF startswith_hash(css_get(css, name))
                        THEN hex_to_rgb(css_get(css, name)) ELSE None
    IN IF parsed("color-accent") # None THEN parsed("color-accent")
       ELSE IF parsed("accent") # None THEN parsed("accent")
       ELSE MS_BLUE

\* the color_keywords table of _resolve_color_vars
color_keywords(accent) ==
    [blue |-> MS_BLUE, success |-> MS_GREEN, warning |-> MS_ORANGE,
     danger |-> MS_RED, accent |-> accent, text |-> WHITE, muted |-> GRAY_70]

\* a table of the declared variables only, without the missing keywords
_resolve_declared_only(css, accent) ==
    [name \in {n \in DOMAIN css : startswith_hash(css[n]) /\ hex_to_rgb(css[n]) # None} |->
        hex_to_rgb(css[name])]

\* _resolve_color_vars: the declared variables that parse, the keyword of a
\* declared standard name that does not start with "#", then the keywords
\* of the standard names still missing
_resolve_color_vars(css, accent) ==
    LET kw == color_keywords(accent)
        declared == {name \in DOMAIN css :
                        \/ startswith_hash(css[name]) /\ hex_to_rgb(css[name]) # None
                        \/ ~startswith_hash(css[name]) /\ name \in DOMAIN kw}
    IN [name \in declared \cup DOMAIN kw |->
           IF name \in declared /\ startswith_hash(css[name])
           THEN hex_to_rgb(css[name]) ELSE kw[name]]

\* the style block of the decks that are converted: --color-accent: #f00
DeckStyle == [n \in {"color-accent"} |-> <<"#", "f", "0", "0">>]

\* a deck that takes no slide for an input slide
add_slide_skipped(prs, n) == prs

\* prs.slides.add_slide: the slide made from input slide n joins the deck
add_slide(prs, n) == Append(prs, n)

\* prs.save has not been called
NotSaved == <<"not saved">>

\* no helper is being applied
NoCall == [fn |-> "none", arg |-> <<>>, ret |-> <<>>]

\* the names and the values a deck may declare
VarNames == {"accent", "success", "warning", "danger", "blue", "text", "muted",
             "color-accent", "brand"}

VarValues == {<<"#", "f", "0", "0">>,
              <<"#", "0", "0", "c", "c", "6", "a">>,
              <<"#", "1", "2", "3", "4", "5", "6">>,
              <<"#", "g", "0", "0">>,
              <<"#", "f", "f", "0", "0", "z", "z">>,
              <<"#", "f", "f", "0", "0">>,
              <<"#">>,
              <<"f", "f", "0", "0", "0", "0">>,
              <<"r", "e", "d">>}

CssVars == UNION {[D -> VarValues] : D \in {X \in SUBSET VarNames : Cardinality(X) <= MaxVars}}

\* style blocks that declare at most a success color
ListStyles == {css \in CssVars : DOMAIN css \subseteq {"success"}}

\* ------------------------------------------------------------------------
\* The text of a card.  A body is a sequence of lines; a line is known by
\* how it starts: "empty" (nothing but whitespace), "plain", "bullet" (one
\* of the BULLET_CHARS other than check and cross), "check" or "cross".
\* A card is known by its kind (the class: card, module-card or tool-card),
\* by where its body comes from ("ul": a list, "element": a body element or
\* a p, "none": neither), by the lines of that source, by whether a run of
\* the source is bold, italic or colored, and by whether it has a title.
\* The lines of a module card are its contract and its purpose, those of a
\* tool card its description.
\* ------------------------------------------------------------------------
LineKinds == {"empty", "plain", "bullet", "check", "cross"}

NonEmpty(lines) == SelectSeq(lines, LAMBDA l : l # "empty")

\* get_text of the source: "" when no line has text
HasText(lines) == NonEmpty(lines) # <<>>

\* the list items joined: an item without a bullet glyph gets "\u2022 "
BulletListBody(items) ==
    [i \in 1..Len(items) |-> IF items[i] = "plain" THEN "bullet" ELSE items[i]]

\* "\n".join(body_lines) is a non-empty string
JoinedTruthy(lines) == Len(lines) >= 2 \/ HasText(lines)

\* _extract_card_content: title, body, body_runs and is_module of a card
extract_card_data(card) ==
    LET is_module == card.kind = "module-card"
        is_tool == card.kind = "tool-card"
        listed == ~is_module /\ ~is_tool /\ card.source = "ul"
        element == ~is_module /\ ~is_tool /\ card.source = "element"
        body_runs == element /\ HasText(card.lines) /\ card.formatted
        body == IF is_module
                THEN (IF JoinedTruthy(card.lines) THEN card.lines ELSE <<>>)
                ELSE IF is_tool
                THEN (IF HasText(card.lines) THEN card.lines ELSE <<>>)
                ELSE IF listed
                THEN (IF JoinedTruthy(card.lines) THEN BulletListBody(card.lines) ELSE <<>>)
                ELSE IF element /\ ~body_runs /\ HasText(card.lines) THEN card.lines
                ELSE <<>>
        all_text == IF card.source = "none" THEN NonEmpty(card.lines) ELSE NonEmpty(body)
        fallback == ~card.title /\ body = <<>> /\ ~body_runs
    IN [title |-> IF fallback THEN all_text # <<>> ELSE card.title,
        body |-> IF fallback /\ Len(all_text) > 1 THEN Tail(all_text) ELSE body,
        body_runs |-> body_runs,
        is_module |-> is_module]

\* _split_bullet_lines: the stripped non-empty lines, each with its color
_split_bullet_lines(body) ==
    LET lines == NonEmpty(body)
    IN [i \in 1..Len(lines) |->
           [line |-> lines[i],
            color |-> CASE lines[i] = "check" -> MS_GREEN
                        [] lines[i] = "cross" -> MS_RED
                        [] OTHER -> None]]

\* the body paragraphs of a card without runs: one per line when there are
\* several lines and one starts with a bullet glyph, else one paragraph
plain_body_paragraphs(body) ==
    LET bullet_lines == _split_bullet_lines(body)
    IN IF /\ Len(bullet_lines) > 1
          /\ \E i \in 1..Len(bullet_lines) : bullet_lines[i].line # "plain"
       THEN [mode |-> "bullets", n |-> Len(bullet_lines)]
       ELSE [mode |-> "prose", n |-> 1]

\* a cell that never looks at the runs
card_cell_without_runs(data) ==
    IF data.is_module /\ data.body # <<>>
    THEN [mode |-> "module",
          n |-> IF HasText(Tail(data.body)) THEN 2 ELSE 1]
    ELSE IF data.body # <<>> THEN plain_body_paragraphs(data.body)
    ELSE [mode |-> "none", n |-> 0]

\* _make_card_frame: the body paragraphs of a standalone card
_make_card_frame(data) ==
    IF data.body_runs THEN [mode |-> "rich", n |-> 1]
    ELSE IF data.body # <<>> THEN plain_body_paragraphs(data.body)
    ELSE [mode |-> "none", n |-> 0]

\* _populate_card_cell: the body paragraphs of a card in a grid cell
_populate_card_cell(data) ==
    IF data.is_module /\ data.body # <<>>
    THEN [mode |-> "module",
          n |-> IF HasText(Tail(data.body)) THEN 2 ELSE 1]
    ELSE IF data.body_runs THEN [mode |-> "rich", n |-> 1]
    ELSE IF data.body # <<>> THEN plain_body_paragraphs(data.body)
    ELSE [mode |-> "none", n |-> 0]

Cards ==
    [kind : {"card", "module-card", "tool-card"},
     source : {"ul", "element", "none"},
     lines : UNION {[1..n -> LineKinds] : n \in 0..MaxLines},
     formatted : BOOLEAN,
     title : BOOLEAN]

\* ------------------------------------------------------------------------
\* The paragraphs of a feature list.  An item is known by its text: "empty",
\* "plain", "check" (starts with the check glyph), "cross" (starts with the
\* cross glyph), "plain_check" (the check glyph stands after other text)
\* and "cross_check" (starts with the cross glyph and has a check glyph
\* further on).  A text frame is a sequence of paragraphs, a paragraph a
\* sequence of runs, a run an item's text with its color.
\* ------------------------------------------------------------------------
ItemKinds == {"empty", "plain", "check", "cross", "plain_check", "cross_check"}

\* _make_text_shape: a new frame holds one paragraph without runs
EmptyFrame == << <<>> >>

\* p.text == "": every run of the paragraph has an empty text
ParagraphEmpty(p) == \A i \in 1..Len(p) : p[i].text = "empty"

\* _add_paragraph: the run goes to the first paragraph while the frame has
\* one paragraph of empty text, else to a new paragraph
_add_paragraph(tf, text, color) ==
    LET run == [text |-> text, color |-> color]
    IN IF Len(tf) = 1 /\ ParagraphEmpty(tf[1])
       THEN <<Append(tf[1], run)>>
       ELSE Append(tf, <<run>>)

\* the color _handle_feature_list gives the text of an li
item_color(t) ==
    CASE t \in {"check", "plain_check", "cross_check"} -> MS_GREEN
      [] t = "cross" -> MS_RED
      [] OTHER -> None

\* items_text: the li texts with their colors, or without an li the
\* non-empty lines of the element's text, uncolored
items_text(texts, has_li) ==
    IF has_li
    THEN [i \in 1..Len(texts) |-> [text |-> texts[i], color |-> item_color(texts[i])]]
    ELSE LET lines == SelectSeq(texts, LAMBDA t : t # "empty")
         IN [i \in 1..Len(lines) |-> [text |-> lines[i], color |-> None]]

RECURSIVE add_paragraphs(_, _, _)
add_paragraphs(tf, its, i) ==
    IF i > Len(its) THEN tf
    ELSE add_paragraphs(
             _add_paragraph(tf, its[i].text,
                            IF its[i].color # None THEN its[i].color ELSE WHITE),
             its, i + 1)

\* _handle_feature_list: the frames, the paragraphs of the frame and the
\* returned cursor
feature_list(texts, has_li, top) ==
    LET its == items_text(texts, has_li)
        height == Max(500, Len(its) * 350)
    IN IF its = <<>> THEN [frames |-> <<>>, top |-> top]
       ELSE [frames |-> <<add_paragraphs(EmptyFrame, its, 1)>>,
             top |-> top + height + GAP_NORMAL]

\* the li texts of a list, or the lines of an element's text
ItemTexts(has_li) ==
    UNION {[1..n -> ItemKinds] : n \in (IF has_li THEN 1 ELSE 0)..MaxLines}

\* ------------------------------------------------------------------------
\* The text of a code block: num_lines lines are left when the trailing
\* empty lines are dropped, and every line is rendered at one font size.
\* ------------------------------------------------------------------------
\* a font size that steps down one line early
code_font_size_early(num_lines) ==
    IF num_lines >= 25 THEN 9
    ELSE IF num_lines >= 18 THEN 10
    ELSE IF num_lines >= 12 THEN 11
    ELSE 12

\* font_size of _handle_code_block
code_font_size(num_lines) ==
    IF num_lines > 25 THEN 9
    ELSE IF num_lines > 18 THEN 10
    ELSE IF num_lines > 12 THEN 11
    ELSE 12

\* _render_code_runs_to_tf: one paragraph per line, its runs at font_size
_render_code_runs_to_tf(num_lines, font_size) ==
    [i \in 1..num_lines |-> font_size]

\* _handle_code_block on a text of text_lines lines followed by trailing
\* empty lines
code_block(text_lines, trailing, top) ==
    LET split == text_lines + trailing
        num_lines == split - trailing
        h0 == Min(4500, Max(1000, num_lines * 180 + 300))
        avail0 == SLIDE_HEIGHT - top - 150
        available == IF avail0 < 800 THEN 800 ELSE avail0
        height == IF h0 > available THEN available ELSE h0
        font_size == code_font_size(num_lines)
    IN [num_lines |-> num_lines, font_size |-> font_size, height |-> height,
        paragraphs |-> _render_code_runs_to_tf(num_lines, font_size),
        top |-> top + height + GAP_NORMAL]

\* ------------------------------------------------------------------------
\* The style fixer (deck-style-fix.py).  A text is a sequence of atoms: a
\* word, a value or a mark of punctuation; "--" and "-" are the hyphens of
\* a variable name, " " stands for any run of whitespace.  Searching and
\* replacing in a text are done on the atoms as the code does them on the
\* characters.
\* ------------------------------------------------------------------------
\* str.find: the first place where pat stands in text, 0 when there is none
Find(text, pat) ==
    LET hits == {i \in 1..(Len(text) - Len(pat) + 1) :
                    SubSeq(text, i, i + Len(pat) - 1) = pat}
    IN IF hits = {} THEN 0 ELSE CHOOSE i \in hits : \A j \in hits : i <= j

\* text[:idx] + new + text[idx + len(old):]
Splice(text, idx, old, new) ==
    SubSeq(text, 1, idx - 1) \o new \o SubSeq(text, idx + Len(old), Len(text))

\* str.replace(old, new, 1)
ReplaceFirst(text, old, new) ==
    IF Find(text, old) = 0 THEN text ELSE Splice(text, Find(text, old), old, new)

\* the words of the variable names
NameWords == {"accent", "text", "surface", "border", "bg", "card", "brand", "1",
              "2", "3", "subtle", "primary", "readable", "muted", "floor"}

\* [\w-]: the atoms a variable name is made of
NameAtoms == NameWords \cup {"--", "-"}

\* the end of the run of atoms from S that starts at i (i - 1 when empty)
RECURSIVE RunEnd(_, _, _)
RunEnd(text, i, S) ==
    IF i <= Len(text) /\ text[i] \in S THEN RunEnd(text, i + 1, S) ELSE i - 1

\* the pattern does not match
NoMatch == [name |-> <<>>, value |-> <<>>, next |-> 0]

\* the function leaves the value as it is (None or "" in the code)
NoFix == ""

\* the deck has no :root block with a body
NoRoot == <<"no :root">>

\* _VAR_DECL_RE at place i: (--[\w-]+)\s*:\s*([^;]+); gives the name, the
\* stripped value and the place after the match
VarDeclAt(text, i) ==
    IF ~(i <= Len(text) /\ text[i] = "--" /\ RunEnd(text, i + 1, NameAtoms) > i)
    THEN NoMatch
    ELSE LET name_end == RunEnd(text, i + 1, NameAtoms)
             colon == RunEnd(text, name_end + 1, {" "}) + 1
             val_start == RunEnd(text, colon + 1, {" "}) + 1
             val_end == RunEnd(text, val_start, {text[k] : k \in 1..Len(text)} \ {";"})
         IN IF /\ colon <= Len(text) /\ text[colon] = ":"
               /\ val_end >= val_start
               /\ val_end < Len(text)
            THEN [name |-> SubSeq(text, i, name_end),
                  value |-> SelectSeq(SubSeq(text, val_start, val_end),
                                      LAMBDA a : a # " "),
                  next |-> val_end + 2]
            ELSE NoMatch

\* _VAR_DECL_RE.finditer(root_body): the declarations from place i on
RECURSIVE VarDecls(_, _)
VarDecls(text, i) ==
    IF i > Len(text) THEN <<>>
    ELSE IF VarDeclAt(text, i) = NoMatch THEN VarDecls(text, i + 1)
    ELSE <<[name |-> VarDeclAt(text, i).name, value |-> VarDeclAt(text, i).value]>>
         \o VarDecls(text, VarDeclAt(text, i).next)

\* core.split("-") of a name without its leading hyphens and without a
\* leading "color-": "-" parts the tokens, "--" leaves an empty token
RECURSIVE SplitName(_)
SplitName(atoms) ==
    IF atoms = <<>> THEN <<>>
    ELSE IF Head(atoms) = "-" THEN SplitName(Tail(atoms))
    ELSE IF Head(atoms) = "--" THEN <<"">> \o SplitName(Tail(atoms))
    ELSE <<Head(atoms)>> \o SplitName(Tail(atoms))

\* _var_name_parts: the tokens and the pairs of neighbouring tokens
_var_name_parts(name) ==
    LET tokens == SplitName(Tail(name))
    IN {<<tokens[i]>> : i \in 1..Len(tokens)}
       \cup {<<tokens[i], tokens[i + 1]>> : i \in 1..(Len(tokens) - 1)}

_ACCENT_WORDS == {<<"accent">>}
_TEXT_WORDS == {<<"text">>}
_SURFACE_WORDS == {<<"surface">>, <<"card", "bg">>, <<"bg", "card">>}
_BORDER_WORDS == {<<"border">>}
_BG_EXACT == {<<"--", "bg">>}

\* classify_variable
classify_variable(name) ==
    LET parts == _var_name_parts(name)
    IN IF name \in _BG_EXACT THEN "bg"
       ELSE IF parts \cap _ACCENT_WORDS # {} THEN "accent"
       ELSE IF parts \cap _SURFACE_WORDS # {} THEN "surface"
       ELSE IF <<"card">> \in parts /\ <<"bg">> \in parts THEN "surface"
       ELSE IF parts \cap _BORDER_WORDS # {} THEN "border"
       ELSE IF parts \cap _TEXT_WORDS # {} THEN "text"
       ELSE "unknown"

\* the color values of the decks: a dark grey, white, black and a faint
\* white
ColorValues == {"#333", "#fff", "#000", "rgba(255,255,255,0.04)"}

\* _fix_text_color on the color values
_fix_text_color(value) ==
    CASE value = "#333" -> "#767676"
      [] value = "#000" -> "#757575"
      [] value = "rgba(255,255,255,0.04)" -> "rgba(255,255,255,0.5)"
      [] OTHER -> NoFix

\* _fix_surface_color on the color values
_fix_surface_color(value) ==
    CASE value = "#000" -> "#161616"
      [] value = "rgba(255,255,255,0.04)" -> "rgba(255,255,255,0.06)"
      [] OTHER -> NoFix

\* _fix_border_color on the color values
_fix_border_color(value) ==
    CASE value = "#000" -> "rgba(255,255,255,0.12)"
      [] value = "rgba(255,255,255,0.04)" -> "rgba(255,255,255,0.12)"
      [] OTHER -> NoFix

\* the value phase 1 gives a variable of the kind
fixed_value(kind, value) ==
    IF Len(value) # 1 THEN NoFix
    ELSE CASE kind = "text" -> _fix_text_color(value[1])
           [] kind = "surface" -> _fix_surface_color(value[1])
           [] kind = "border" -> _fix_border_color(value[1])
           [] OTHER -> NoFix

\* the loop of phase1_css_variables over the declarations of root_body:
\* the first place where "name: value;" stands in new_body is replaced
RECURSIVE phase1_loop(_, _, _, _)
phase1_loop(decls, i, new_body, changes) ==
    IF i > Len(decls) THEN [body |-> new_body, changes |-> changes]
    ELSE LET var_name == decls[i].name
             var_value == decls[i].value
             kind == classify_variable(var_name)
             new_val == fixed_value(kind, var_value)
             old_decl == var_name \o <<":", " ">> \o var_value \o <<";">>
             new_decl == var_name \o <<":", " ", new_val, ";">>
         IN IF kind \in {"accent", "bg", "unknown"} \/ new_val = NoFix
            THEN phase1_loop(decls, i + 1, new_body, changes)
            ELSE phase1_loop(decls, i + 1,
                             ReplaceFirst(new_body, old_decl, new_decl),
                             Append(changes, [phase |-> "css-var",
                                              category |-> IF kind = "text" THEN "contrast" ELSE kind,
                                              location |-> var_name]))

\* phase1_css_variables on the body of the first :root block
phase1_css_variables(root_body) ==
    IF root_body = NoRoot THEN [body |-> NoRoot, changes |-> <<>>]
    ELSE phase1_loop(VarDecls(root_body, 1), 1, root_body, <<>>)

\* ------------------------------------------------------------------------
\* Phase 2 of the style fixer.  The text of a <style> block is a sequence
\* of rules, each with one font-size declaration, some of them alone in an
\* @media block:  selector { font-size: 12 px; }  or
\* @media { selector { font-size: 12 px; } }.
\* ------------------------------------------------------------------------
\* the selectors of the decks
Selectors == {"p", ".card-title", "th", ".logo"}

\* the font sizes of the decks, in px, as they are written
FontSizes == {"10", "12", "14", "20"}

\* float(fs_m.group(2))
px_value(px) ==
    CASE px = "10" -> 10 [] px = "12" -> 12 [] px = "14" -> 14 [] px = "16" -> 16
      [] px = "18" -> 18 [] px = "20" -> 20 [] px = "28" -> 28

\* f"{min_px}"
px_text(n) ==
    CASE n = 12 -> "12" [] n = 14 -> "14" [] n = 16 -> "16" [] n = 18 -> "18"
      [] n = 28 -> "28"

\* _SELECTOR_MINIMUMS: the minimum of the first pattern that is found in
\* the selector, 0 when none is
selector_minimum(selector) ==
    CASE selector = ".card-title" -> 18
      [] selector = "th" -> 12
      [] selector = "p" -> 14
      [] OTHER -> 0

\* the text of a font-size declaration as _FONT_SIZE_PROP_RE matches it
font_size_decl(spaced, px) ==
    <<"font-size", ":">> \o (IF spaced THEN <<" ">> ELSE <<>>) \o <<px, "px", ";">>

\* the text of one rule
rule_text(rule) ==
    (IF rule.media THEN <<"@media", "{">> ELSE <<>>)
    \o <<rule.selector, "{">> \o font_size_decl(rule.spaced, rule.px) \o <<"}">>
    \o (IF rule.media THEN <<"}">> ELSE <<>>)

RECURSIVE css_text(_)
css_text(rules) ==
    IF rules = <<>> THEN <<>> ELSE rule_text(Head(rules)) \o css_text(Tail(rules))

\* rule_re.finditer with _in_media and _FONT_SIZE_PROP_RE: the fragments
\* to replace, of the rules outside @media whose size is below the minimum
\* of their selector
RECURSIVE phase2_replacements(_, _)
phase2_replacements(rules, i) ==
    IF i > Len(rules) THEN <<>>
    ELSE LET rule == rules[i]
             min_px == selector_minimum(rule.selector)
         IN (IF ~rule.media /\ min_px > 0 /\ px_value(rule.px) < min_px
             THEN <<[old |-> font_size_decl(rule.spaced, rule.px),
                     new |-> font_size_decl(rule.spaced, px_text(min_px)),
                     location |-> rule.selector]>>
             ELSE <<>>)
            \o phase2_replacements(rules, i + 1)

\* new_css.replace(old_frag, new_frag, 1) for each replacement in turn
RECURSIVE apply_replacements(_, _, _)
apply_replacements(css, reps, i) ==
    IF i > Len(reps) THEN css
    ELSE apply_replacements(ReplaceFirst(css, reps[i].old, reps[i].new), reps, i + 1)

\* phase2_css_rules on one <style> block
phase2_block(rules) ==
    LET reps == phase2_replacements(rules, 1)
    IN [css |-> apply_replacements(css_text(rules), reps, 1),
        changes |-> [k \in 1..Len(reps) |->
                        [phase |-> "css-rule", category |-> "font-size",
                         location |-> reps[k].location]]]

\* ------------------------------------------------------------------------
\* Phase 3 of the style fixer.  The text of a style attribute is a sequence
\* of properties "name: value;"; the name background-color is the atoms
\* background, "-", color.
\* ------------------------------------------------------------------------
\* the opacities of the decks
Opacities == {"0.3", "0.8"}

\* the colors of the inline styles
InlineColors == {"#333", "#fff", "rgba(255,255,255,0.04)"}

prop_name_text(name) ==
    CASE name = "background-color" -> <<"background", "-", "color">>
      [] name = "border-color" -> <<"border", "-", "color">>
      [] OTHER -> <<name>>

prop_text(prop) ==
    prop_name_text(prop.name) \o <<":", " ">>
    \o (IF prop.name = "font-size" THEN <<prop.value, "px">> ELSE <<prop.value>>)
    \o <<";">>

RECURSIVE style_text(_)
style_text(props) ==
    IF props = <<>> THEN <<>> ELSE prop_text(Head(props)) \o style_text(Tail(props))

\* the first place from i on where the property name stands with ": " and
\* a value after it and, for before_ok, an allowed atom before it; 0 when
\* there is none
RECURSIVE SearchProp(_, _, _, _)
SearchProp(style, name, values, i) ==
    IF i + 3 > Len(style) THEN 0
    ELSE IF /\ style[i] = name
            /\ style[i + 1] = ":"
            /\ style[i + 2] = " "
            /\ style[i + 3] \in values
            /\ (name = "color" => (i = 1 \/ style[i - 1] \in {";", " "}))
         THEN i
         ELSE SearchProp(style, name, values, i + 1)

\* _fix_inline_text_color on the colors of the inline styles
_fix_inline_text_color(value) ==
    CASE value = "#333" -> "#767676"
      [] value = "rgba(255,255,255,0.04)" -> "rgba(255,255,255,0.5)"
      [] OTHER -> NoFix

\* the atom at place i replaced
SetAt(text, i, atom) == [text EXCEPT ![i] = atom]

\* the font-size step of _fix_one
fix_font_size(style, is_icon) ==
    LET at == SearchProp(style, "font-size", FontSizes, 1)
        min_px == IF is_icon THEN 28 ELSE 14
    IN IF at # 0 /\ style[at + 4] = "px" /\ px_value(style[at + 3]) < min_px
       THEN [style |-> SetAt(style, at + 3, px_text(min_px)),
             changes |-> <<[phase |-> "inline", category |-> "font-size",
                            location |-> "inline"]>>]
       ELSE [style |-> style, changes |-> <<>>]

\* the color step of _fix_one: the first place where the matched value
\* stands in the style is replaced
fix_color(style) ==
    LET at == SearchProp(style, "color", InlineColors, 1)
        new_color == IF at = 0 THEN NoFix ELSE _fix_inline_text_color(style[at + 3])
    IN IF new_color = NoFix THEN [style |-> style, changes |-> <<>>]
       ELSE [style |-> ReplaceFirst(style, <<style[at + 3]>>, <<new_color>>),
             changes |-> <<[phase |-> "inline", category |-> "color",
                            location |-> "inline"]>>]

\* the opacity step of _fix_one
fix_opacity(style) ==
    LET at == SearchProp(style, "opacity", Opacities, 1)
    IN IF at # 0 /\ style[at + 3] = "0.3"
       THEN [style |-> SetAt(style, at + 3, "0.5"),
             changes |-> <<[phase |-> "inline", category |-> "opacity",
                            location |-> "inline"]>>]
       ELSE [style |-> style, changes |-> <<>>]

\* _fix_one: the three steps on one style attribute
_fix_one(style, is_icon) ==
    LET a == fix_font_size(style, is_icon)
        b == fix_color(a.style)
        c == fix_opacity(b.style)
    IN [style |-> c.style, changes |-> a.changes \o b.changes \o c.changes]

\* phase3_inline_styles on the style attributes of the deck
RECURSIVE phase3_loop(_, _, _, _)
phase3_loop(attrs, i, out, changes) ==
    IF i > Len(attrs)
    THEN [attrs |-> out,
          changes |-> IF Len(attrs) > 0
                      THEN Append(changes, [phase |-> "inline", category |-> "info",
                                            location |-> "deck"])
                      ELSE changes]
    ELSE LET r == _fix_one(attrs[i].style, attrs[i].is_icon)
         IN phase3_loop(attrs, i + 1,
                        Append(out, [style |-> r.style, is_icon |-> attrs[i].is_icon]),
                        changes \o r.changes)

phase3_inline_styles(attrs) == phase3_loop(attrs, 1, <<>>, <<>>)

\* rule_re and _FONT_SIZE_PROP_RE on the text of a <style> block: its rules
RECURSIVE parse_rules(_, _)
parse_rules(css, i) ==
    IF i > Len(css) THEN <<>>
    ELSE LET media == css[i] = "@media"
             j == IF media THEN i + 2 ELSE i
             spaced == css[j + 4] = " "
             k == IF spaced THEN j + 5 ELSE j + 4
         IN <<[media |-> media, selector |-> css[j], spaced |-> spaced, px |-> css[k]]>>
            \o parse_rules(css, k + 4 + (IF media THEN 1 ELSE 0))

\* phase2_css_rules on the text of the <style> block of the deck
phase2_css_rules(css) == phase2_block(parse_rules(css, 1))

\* ------------------------------------------------------------------------
\* Phase 4 of the style fixer and the whole of fix_deck.  A deck is its
\* :root block (whether there is one, and the text of its body), the text
\* of the rules of its <style> block and its style attributes.
\* ------------------------------------------------------------------------
_SURFACE_VARS ==
    <<<<"--", "surface", "-", "1">>, <<"--", "surface", "-", "2">>,
      <<"--", "surface", "-", "3">>, <<"--", "border", "-", "subtle">>,
      <<"--", "text", "-", "primary">>, <<"--", "text", "-", "readable">>,
      <<"--", "text", "-", "muted", "-", "floor">> >>

_INJECT_BLOCK ==
    <<" ", "/* Surface hierarchy */", " ">>
    \o _SURFACE_VARS[1] \o <<":", " ", "rgba(255,255,255,0.06)", ";", " ">>
    \o _SURFACE_VARS[2] \o <<":", " ", "rgba(255,255,255,0.10)", ";", " ">>
    \o _SURFACE_VARS[3] \o <<":", " ", "rgba(255,255,255,0.15)", ";", " ">>
    \o _SURFACE_VARS[4] \o <<":", " ", "rgba(255,255,255,0.12)", ";", " ">>
    \o _SURFACE_VARS[5] \o <<":", " ", "#ffffff", ";", " ">>
    \o _SURFACE_VARS[6] \o <<":", " ", "rgba(255,255,255,0.7)", ";", " ">>
    \o _SURFACE_VARS[7] \o <<":", " ", "rgba(255,255,255,0.5)", ";", " ">>

\* _ROOT_BLOCK_RE.search: the body of the :root block, which [^}]+ does not
\* match when it is empty
root_match(root) == IF root.exists /\ root.body # <<>> THEN root.body ELSE NoRoot

\* re.search(re.escape(var) + r"\s*:", root_body)
var_found(root_body, var) ==
    Find(root_body, var \o <<":">>) # 0 \/ Find(root_body, var \o <<" ", ":">>) # 0

\* str.rstrip of a text whose whitespace is the atom " "
RECURSIVE rstrip_atoms(_)
rstrip_atoms(text) ==
    IF text # <<>> /\ text[Len(text)] = " "
    THEN rstrip_atoms(SubSeq(text, 1, Len(text) - 1)) ELSE text

\* phase4_inject_missing on the body of the first :root block
phase4_inject_missing(root_body) ==
    IF root_body = NoRoot THEN [body |-> NoRoot, changes |-> <<>>]
    ELSE IF \E v \in 1..Len(_SURFACE_VARS) : var_found(root_body, _SURFACE_VARS[v])
    THEN [body |-> root_body, changes |-> <<>>]
    ELSE [body |-> rstrip_atoms(root_body) \o <<" ">> \o _INJECT_BLOCK,
          changes |-> <<[phase |-> "inject", category |-> "inject", location |-> ":root"]>>]

\* html.replace(old_root, new_root, 1): the deck with a new body
with_body(root, body) == IF body = NoRoot THEN root ELSE [root EXCEPT !.body = body]

\* fix_deck: the four phases in turn, their changes in one list
fix_deck(html) ==
    LET p1 == phase1_css_variables(root_match(html.root))
        root1 == with_body(html.root, p1.body)
        p2 == phase2_css_rules(html.css)
        p3 == phase3_inline_styles(html.attrs)
        p4 == phase4_inject_missing(root_match(root1))
    IN [html |-> [root |-> with_body(root1, p4.body), css |-> p2.css, attrs |-> p3.attrs],
        changes |-> p1.changes \o p2.changes \o p3.changes \o p4.changes]

\* _is_fixable
_is_fixable(c) == c.category # "info"

\* ------------------------------------------------------------------------
\* The command line and the files of a run of the style fixer
\* ------------------------------------------------------------------------
\* the paths on the command line
Paths == {"a", "a.bak", "b"}

\* filepath + ".bak"
bak(path) ==
    CASE path = "a" -> "a.bak" [] path = "a.bak" -> "a.bak.bak" [] path = "b" -> "b.bak"

DiskPaths == Paths \cup {bak(path) : path \in Paths}

\* os.path.isfile is false
Absent == [root |-> [exists |-> FALSE, body |-> <<"absent">>], css |-> <<>>, attrs |-> <<>>]

NoArgs == [files |-> <<>>, dry_run |-> FALSE, report |-> FALSE, backup |-> FALSE,
           verbose |-> FALSE, quiet |-> FALSE]

NoDisk == [path \in DiskPaths |-> Absent]

\* the bodies of the :root blocks of the decks on disk: a dim text color,
\* the same written without a space, no surface variable at all, nothing
\* to fix
RootBodies ==
    {<<" ", "--", "text", ":", " ", "#333", ";", " ", "--", "surface", "-", "1", ":", " ", "#fff", ";", " ">>,
     <<" ", "--", "text", ":", "#333", ";", " ", "--", "surface", "-", "1", ":", " ", "#fff", ";", " ">>,
     <<" ", "--", "brand", ":", " ", "#fff", ";", " ">>,
     <<" ", "--", "text", ":", " ", "#fff", ";", " ", "--", "surface", "-", "1", ":", " ", "#fff", ";", " ">>}

\* the decks on disk
DiskDocs ==
    [root : [exists : {TRUE}, body : RootBodies],
     css : {<<>>, css_text(<<[media |-> FALSE, selector |-> "p", spaced |-> TRUE, px |-> "12"]>>)},
     attrs : {<<>>, <<[style |-> style_text(<<[name |-> "color", value |-> "#fff"]>>),
                       is_icon |-> FALSE]>>}]

\* the .bak files left by an earlier run
BakDocs == {d \in DiskDocs : d.css = <<>> /\ d.attrs = <<>> /\ d.root.body[3] # "brand"}

\* a run that rewrites every file it has read
file_ops_always(args, filepath, html, new_html) ==
    IF args.report \/ args.dry_run THEN <<>>
    ELSE (IF args.backup
          THEN <<[op |-> "copy", path |-> bak(filepath), old |-> html, new |-> html]>>
          ELSE <<>>)
         \o <<[op |-> "write", path |-> filepath, old |-> html, new |-> new_html]>>

\* the writes of main for one file: shutil.copy2 to the .bak path, then
\* write_text, when the mode writes and the deck was changed
file_ops(args, filepath, html, new_html) ==
    IF args.report \/ args.dry_run THEN <<>>
    ELSE IF new_html # html
    THEN (IF args.backup
          THEN <<[op |-> "copy", path |-> bak(filepath), old |-> html, new |-> html]>>
          ELSE <<>>)
         \o <<[op |-> "write", path |-> filepath, old |-> html, new |-> new_html]>>
    ELSE <<>>

\* the files after the operations
RECURSIVE apply_ops(_, _)
apply_ops(files, ops) ==
    IF ops = <<>> THEN files
    ELSE apply_ops([files EXCEPT ![Head(ops).path] = Head(ops).new], Tail(ops))

\* what main prints for one file
file_report(args, filepath, changes) ==
    LET fixable == Len(SelectSeq(changes, _is_fixable))
        infos == Len(changes) - fixable
        kind == IF args.report THEN "report_issues"
                ELSE IF args.dry_run THEN "report_dryrun"
                ELSE IF args.verbose THEN "report_verbose"
                ELSE "report_normal"
    IN IF args.quiet THEN <<>>
       ELSE <<[kind |-> kind, path |-> filepath, fixed |-> fixable, remaining |-> infos]>>

\* ------------------------------------------------------------------------
\* The :root blocks, <style> blocks and style attributes the phases of the
\* style fixer are applied to on their own
\* ------------------------------------------------------------------------
\* the names of the variables of the :root blocks
VarNameTexts ==
    {<<"--", "text">>, <<"--", "accent">>, <<"--", "accent", "--", "text">>,
     <<"--", "bg">>, <<"--", "brand">>, <<"--", "surface", "-", "1">>,
     <<"--", "border">>, <<"--", "card", "-", "bg">>,
     <<"--", "brand", "--", "surface", "-", "1">>}

VarDeclSet == [name : VarNameTexts, value : ColorValues, spaced : BOOLEAN]

\* the text of a declaration
var_decl_text(d) ==
    d.name \o <<":">> \o (IF d.spaced THEN <<" ">> ELSE <<>>) \o <<d.value, ";">>

\* the text of the body of a :root block with the declarations
RECURSIVE root_body_text(_)
root_body_text(decls) ==
    IF decls = <<>> THEN <<" ">>
    ELSE <<" ">> \o var_decl_text(Head(decls)) \o root_body_text(Tail(decls))

RootDecls == UNION {[1..n -> VarDeclSet] : n \in 1..MaxDecls}

RuleSet == [media : BOOLEAN, selector : Selectors, spaced : BOOLEAN, px : FontSizes]

\* the :root blocks of the decks: none, one written :root{}, one with
\* declarations
RootBlocks ==
    {[exists |-> FALSE, body |-> <<>>], [exists |-> TRUE, body |-> <<>>]}
    \cup {[exists |-> TRUE, body |-> root_body_text(decls)] :
              decls \in UNION {[1..n -> VarDeclSet] : n \in 0..MaxDecls}}

\* the properties an inline style is written with
PropSet ==
    {[name |-> n, value |-> v] :
         n \in {"color", "background-color", "border-color"}, v \in InlineColors}
    \cup {[name |-> "font-size", value |-> v] : v \in FontSizes}
    \cup {[name |-> "opacity", value |-> v] : v \in Opacities}

\* the style attributes of the decks
StyleAttrs ==
    {[props |-> props, is_icon |-> icon] :
         props \in UNION {[1..n -> PropSet] : n \in 0..MaxProps},
         icon \in BOOLEAN}

\* the rules of one <style> block
StyleRules == UNION {[1..n -> RuleSet] : n \in 1..MaxRules}

\* ------------------------------------------------------------------------
\* The slides the converter is run on.
\* ------------------------------------------------------------------------
Tags == {"div", "h1", "h2", "table"}

\* every class name process_slide and the renderers look for
Vocabulary ==
    {"section-label", "section-number", "section-title", "headline", "big-text",
     "medium-headline", "subhead", "architecture-diagram", "comparison-table",
     "thirds", "halves", "fourths", "grid", "grid-2", "grid-3", "grid-4", "grid-5",
     "tools-grid", "split", "card", "module-card", "tool-card", "track-card",
     "principles-grid", "principle", "code-block", "flow-diagram", "workflow",
     "flow", "tenet", "versus", "feature-list", "notification-stack", "stat-grid",
     "stat-row", "velocity-grid", "big-stat", "tier-stack", "tier-row", "diagram",
     "before-after", "token-display", "good-pattern", "bad-pattern", "summary-row",
     "body-text", "title-meta", "highlight-box", "quote", "small-text"}

\* one class per detector, for elements that carry two classes
OnePerStep ==
    {"section-label", "section-title", "headline", "medium-headline", "subhead",
     "architecture-diagram", "comparison-table", "grid-3", "card",
     "principles-grid", "principle", "code-block", "flow", "tenet", "versus",
     "feature-list", "notification-stack", "stat-row", "big-stat", "tier-stack",
     "tier-row", "diagram", "before-after", "token-display", "good-pattern",
     "summary-row", "body-text", "title-meta", "highlight-box", "quote",
     "small-text"}

Node(parent, tag, cls, text, items) ==
    [parent |-> parent, tag |-> tag, cls |-> cls, text |-> text, items |-> items]

\* a slide with one element of at most one class
DomsSingle ==
    {[centered |-> c, nodes |-> <<Node(0, "div", cls, text, items)>>] :
        c \in BOOLEAN, cls \in {<<>>} \cup {<<v>> : v \in Vocabulary},
        text \in {0, 2, 8}, items \in {0, 1, 3, 6, 30}}

\* a slide with one heading or one table
DomsTagged ==
    {[centered |-> c, nodes |-> <<Node(0, tag, cls, text, items)>>] :
        c \in BOOLEAN, tag \in Tags \ {"div"},
        cls \in {<<>>, <<"headline">>, <<"big-text">>, <<"section-title">>},
        text \in {0, 8, 40}, items \in {0, 3}}

\* a slide with one element of two classes
DomsTwoClasses ==
    {[centered |-> FALSE, nodes |-> <<Node(0, tag, ab, 8, items)>>] :
        tag \in {"div", "h2"},
        ab \in {x \in OnePerStep \X OnePerStep : x[1] # x[2]},
        items \in {0, 2}}

\* the elements of the slides with several elements
Marks ==
    {<<"div", <<>>>>, <<"div", <<"card">>>>, <<"div", <<"grid-2">>>>,
     <<"div", <<"code-block">>>>, <<"div", <<"body-text">>>>,
     <<"div", <<"architecture-diagram">>>>, <<"div", <<"comparison-table">>>>,
     <<"div", <<"highlight-box">>>>, <<"div", <<"title-meta">>>>,
     <<"div", <<"good-pattern">>>>, <<"h2", <<"headline">>>>, <<"table", <<>>>>}

FewMarks ==
    {<<"div", <<>>>>, <<"div", <<"card">>>>, <<"div", <<"grid-2">>>>,
     <<"div", <<"code-block">>>>, <<"div", <<"body-text">>>>,
     <<"h2", <<"headline">>>>}

\* the parent of every element is the slide (0) or an element still open in
\* document order
RECURSIVE OpenAt(_, _)
OpenAt(ps, k) == IF k = 0 THEN {0}
                 ELSE {k} \cup OpenAt(ps, ps[k])

Trees(n) == {ps \in [1..n -> 0..(n - 1)] :
                \A k \in 1..n : ps[k] \in OpenAt(ps, k - 1)}

DomsTree(n, marks, contents, cs) ==
    {[centered |-> c,
      nodes |-> [k \in 1..n |-> Node(ps[k], m[k][1], m[k][2], t[k][1], t[k][2])] \o <<>>] :
        c \in cs, ps \in Trees(n), m \in [1..n -> marks], t \in [1..n -> contents]}

Doms ==
    <<DomsTwoClasses, DomsSingle, DomsTagged,
      DomsTree(2, Marks, {<<0, 0>>, <<8, 0>>, <<0, 2>>, <<0, 30>>}, BOOLEAN),
      DomsTree(MaxNodes, FewMarks, {<<8, 0>>, <<0, 2>>}, {FALSE})>>

NoDom == [centered |-> FALSE, nodes |-> <<>>]

\* the shapes a slide may hold when the overflow pass starts
ShapeSet == {Sh(top, height, table) :
                top \in {200, 400, 600, 5475, 6000},
                height \in {400, 1500, 7000, 20000},
                table \in BOOLEAN}

ShapeLists == UNION {[1..n -> ShapeSet] : n \in 0..MaxShapes}

\* ------------------------------------------------------------------------
\* convert: the slides are processed one after the other
\* ------------------------------------------------------------------------
ConverterInit ==
    /\ pc = "loop"
    /\ slide_num = 0
    /\ dom = NoDom
    /\ placed = <<>>
    /\ shapes = <<>>
    /\ log = <<>>
    /\ handled = {}
    /\ warnings = <<>>
    /\ scale = NoScale
    /\ css_vars = DeckStyle
    /\ accent_color = resolve_accent_color(css_vars)
    /\ color_vars = _resolve_color_vars(css_vars, accent_color)
    /\ num_slides \in 0..MaxSlides
    /\ deck = <<>>
    /\ saved = NotSaved
    /\ py_warnings = <<>>
    /\ stderr = <<>>
    /\ call = NoCall

\* no run of the style fixer
FixerIdle ==
    /\ fx_pc = "idle"
    /\ fx_args = NoArgs
    /\ disk = NoDisk
    /\ disk0 = NoDisk
    /\ fx_idx = 0
    /\ fs_ops = <<>>
    /\ fx_out = <<>>
    /\ fx_totals = [fixed |-> 0, remaining |-> 0, processed |-> 0]

Init == ConverterInit /\ FixerIdle

\* process_slide(slide_div, i + 1)
ProcessSlide ==
    /\ pc = "loop"
    /\ slide_num < num_slides
    /\ deck' = add_slide(deck, slide_num + 1)
    /\ UNCHANGED <<palette, num_slides, outputs, call>>
    /\ UNCHANGED fixer
    /\ \E family \in 1..Len(Doms) : \E d \in Doms[family] :
          \E st \in {render_slide(d)} :
          \E c \in {_compress_if_needed(st.shapes, slide_num + 1, warnings)} :
             /\ dom' = d
             /\ placed' = st.shapes
             /\ handled' = st.handled
             /\ log' = st.log
             /\ shapes' = c.shapes
             /\ warnings' = c.warnings
             /\ scale' = c.scale
    /\ slide_num' = slide_num + 1
    /\ pc' = "slide_done"

\* process_slide returns: its locals are gone, the loop goes on
NextSlide ==
    /\ pc \in {"slide_done", "compressed"}
    /\ pc' = "loop"
    /\ dom' = NoDom
    /\ placed' = <<>>
    /\ shapes' = <<>>
    /\ log' = <<>>
    /\ handled' = {}
    /\ scale' = NoScale
    /\ UNCHANGED <<slide_num, warnings>>
    /\ UNCHANGED <<palette, num_slides, deck, outputs, call>>
    /\ UNCHANGED fixer

\* the loop ends and convert returns the presentation
Finish ==
    /\ pc = "loop"
    /\ call = NoCall
    /\ slide_num = num_slides
    /\ pc' = "done"
    /\ py_warnings' = IF num_slides = 0
                      THEN Append(py_warnings, "No slides found in HTML")
                      ELSE py_warnings
    /\ UNCHANGED <<slide_num, dom, placed, shapes, log, handled, warnings, scale>>
    /\ UNCHANGED <<palette, num_slides, deck, saved, stderr, call>>
    /\ UNCHANGED fixer

\* main: converter.save(str(output_path))
Save ==
    /\ pc = "done"
    /\ pc' = "saved"
    /\ saved' = deck
    /\ UNCHANGED <<slide_num, dom, placed, shapes, log, handled, warnings, scale>>
    /\ UNCHANGED <<palette, num_slides, deck, py_warnings, stderr, call>>
    /\ UNCHANGED fixer

\* main: the warnings of the converter are printed to stderr
Report ==
    /\ pc = "saved"
    /\ pc' = "reported"
    /\ stderr' = stderr \o warnings
    /\ UNCHANGED <<slide_num, dom, placed, shapes, log, handled, warnings, scale>>
    /\ UNCHANGED <<palette, num_slides, deck, saved, py_warnings, call>>
    /\ UNCHANGED fixer

Next == ProcessSlide \/ NextSlide \/ Finish \/ Save \/ Report

Spec == Init /\ [][Next]_vars

\* ------------------------------------------------------------------------
\* The overflow pass alone, on slides holding any shapes
\* ------------------------------------------------------------------------
PlaceShapes ==
    /\ pc = "loop"
    /\ slide_num < num_slides
    /\ \E shs \in ShapeLists : placed' = shs /\ shapes' = shs
    /\ slide_num' = slide_num + 1
    /\ pc' = "placed"
    /\ deck' = add_slide(deck, slide_num + 1)
    /\ UNCHANGED <<dom, log, handled, warnings, scale>>
    /\ UNCHANGED <<palette, num_slides, outputs, call>>
    /\ UNCHANGED fixer

CompressSlide ==
    /\ pc = "placed"
    /\ \E c \in {_compress_if_needed(placed, slide_num, warnings)} :
          /\ shapes' = c.shapes
          /\ warnings' = c.warnings
          /\ scale' = c.scale
    /\ pc' = "compressed"
    /\ UNCHANGED <<slide_num, dom, placed, log, handled>>
    /\ UNCHANGED <<palette, num_slides, deck, outputs, call>>
    /\ UNCHANGED fixer

NextCompress == PlaceShapes \/ CompressSlide \/ NextSlide \/ Finish

SpecCompress == Init /\ [][NextCompress]_vars

\* ------------------------------------------------------------------------
\* Properties of one process_slide pass (Spec)
\* ------------------------------------------------------------------------
Entries == 1..Len(log)

\* the dispatches that put shapes on the slide for el, as the dispatched
\* element or as an element the renderer draws on its behalf
Renderings(el) ==
    {k \in Entries : log[k].n > 0 /\ el \in log[k].els \cup log[k].subs}

\* C1: no double rendering: within one process_slide run no element produces
\* two separate command sets, each element goes to at most one renderer.
C1_NoDoubleRendering ==
    \A el \in Elems(dom) : Cardinality(Renderings(el)) <= 1

\* C2: once a detector has assigned an element, no later detector and not
\* the fallback emits the content of that element or of a descendant of it.
C2_DescendantsNotReEmitted ==
    \A k \in Entries : \A j \in Entries :
        k < j => \A el \in log[k].els : log[j].emits \cap Subtree(dom, el) = {}

GridCards ==
    {el \in Elems(dom) : /\ HasAnyClass(dom, el, card_classes)
                         /\ dom.nodes[el].parent # 0
                         /\ HasAnyClass(dom, dom.nodes[el].parent, grid_classes)}

\* C3: a card whose immediate parent carries a grid class is never passed to
\* the standalone-card renderer and is rendered exactly once, as a cell of
\* the table of its grid.
C3_GridCardRenderedOnceAsCell ==
    \A el \in GridCards :
        /\ \A k \in Entries : log[k].step = "standalone_cards" => el \notin log[k].els
        /\ Cardinality({k \in Entries : /\ log[k].step = "card_grids"
                                        /\ log[k].els = {dom.nodes[el].parent}
                                        /\ log[k].n > 0
                                        /\ el \in log[k].subs}) = 1

\* C5: monotonic cursor: every renderer invocation returns a cursor that is
\* at least the cursor it was given, so the cursor of process_slide never
\* decreases.
C5_MonotonicCursor ==
    \A k \in Entries : log[k].top_out >= log[k].top_in

\* C6: empty content is a no-op: a renderer invoked on an element without
\* any text or rows emits no shape and returns the cursor unchanged.
C6_EmptyContentNoop ==
    \A k \in Entries :
        (\A el \in log[k].els : get_text(dom, el) = 0)
            => log[k].n = 0 /\ log[k].top_out = log[k].top_in

\* x is drawn: by a dispatch of its own, or inside an element that was drawn
Visible(x) ==
    \E k \in Entries : /\ log[k].n > 0
                       /\ \E e \in log[k].els \cup log[k].subs : x \in Subtree(dom, e)

Dispatched(x) == \E k \in Entries : log[k].step # "fallback" /\ x \in log[k].els

\* C7: every block with text that no archetype detector took ends the pass
\* drawn: by the fallback, or as part of a container that was drawn.
C7_UnmatchedTextIsDrawn ==
    \A x \in Elems(dom) :
        (OwnLines(dom, x) > 0 /\ ~Dispatched(x)) => Visible(x)

\* C9: a code block, and an architecture diagram drawn like one, never
\* extends past the canvas bottom: top + height <= SLIDE_HEIGHT.
C9_CodeBlockWithinCanvas ==
    \A k \in 1..Len(placed) :
        placed[k].by \in {"code_blocks", "architecture_diagram"}
            => placed[k].top + placed[k].height <= SLIDE_HEIGHT

\* the detector that took the element matches it: a header kind matches an
\* element with text, every other step the elements its loop selects
Matches(step, el) ==
    IF step = "header"
    THEN get_text(dom, el) > 0
         /\ \E k \in 1..Len(HeaderKinds) : HeaderSelects(HeaderKinds[k], dom, el)
    ELSE Selects(step, dom, el)

\* the good/bad step has taken another element of the pattern class of el
PatternTaken(el) ==
    \E k \in Entries : \E other \in log[k].els \ {el} :
        /\ log[k].step = "good_bad"
        /\ \E c \in {"good-pattern", "bad-pattern"} :
              HasClass(dom, el, c) /\ HasClass(dom, other, c)

\* the order as stated: header-zone text kinds, diagrams, grids, standalone
\* cards, principles/tenets, code, flow, versus, tables, lists, notifications,
\* stats, tiers, generic diagram, before/after, token display, good/bad,
\* summary, body text, meta/footer, fallback
StatedRank ==
    [header |-> 1, architecture_diagram |-> 2, card_grids |-> 3,
     standalone_cards |-> 4, principles |-> 5, principle |-> 5, tenets |-> 5,
     code_blocks |-> 6, flow_diagrams |-> 7, versus |-> 8, tables |-> 9,
     feature_lists |-> 10, notification_stacks |-> 11, stats |-> 12,
     big_stats |-> 12, tier_stacks |-> 13, tier_rows |-> 13, diagrams |-> 14,
     before_after |-> 15, token_display |-> 16, good_bad |-> 17,
     summary_rows |-> 18, body_text |-> 19, title_meta |-> 20, small_text |-> 20,
     fallback |-> 21]

\* C8 as stated: an element that several detectors match is assigned to the
\* earliest of them in the stated order, where principles and tenets come
\* before code and flow.
C8_StatedPriority ==
    \A k \in Entries : \A el \in log[k].els : \A step \in DOMAIN StatedRank :
        (log[k].step \in DOMAIN StatedRank /\ Matches(step, el))
            => StatedRank[log[k].step] <= StatedRank[step]

\* the order with the tenets after code and flow, every step in its place
AmendedRank ==
    [header |-> 1, architecture_diagram |-> 2, comparison_table |-> 3,
     card_grids |-> 4, standalone_cards |-> 5, principles |-> 6, principle |-> 7,
     code_blocks |-> 8, flow_diagrams |-> 9, tenets |-> 10, versus |-> 11,
     tables |-> 12, feature_lists |-> 13, notification_stacks |-> 14, stats |-> 15,
     big_stats |-> 16, tier_stacks |-> 17, tier_rows |-> 18, diagrams |-> 19,
     before_after |-> 20, token_display |-> 21, good_bad |-> 22,
     summary_rows |-> 23, body_text |-> 24, title_meta |-> 25,
     highlight_boxes |-> 26, quotes |-> 27, small_text |-> 28, fallback |-> 29]

\* C8, amended: an element that several detectors match is assigned to the
\* earliest of them in the order header kinds, architecture diagrams,
\* comparison tables, grids, standalone cards, principles, code, flow,
\* tenets, versus, tables, lists, notifications, stats, big stats, tier
\* stacks, tier rows, generic diagram, before/after, token display,
\* good/bad, summary, body text, title meta, highlight boxes, quotes, small
\* text, fallback; the good/bad step takes one element of each pattern class
\* and leaves the others to the later steps.
C8_AmendedPriority ==
    \A k \in Entries : \A el \in log[k].els : \A step \in DOMAIN AmendedRank :
        (Matches(step, el) /\ ~(step = "good_bad" /\ PatternTaken(el)))
            => AmendedRank[log[k].step] <= AmendedRank[step]

\* an element that is both a tenet and a code block was taken as a code block
C8_Witness ==
    \E k \in Entries : \E el \in log[k].els :
        /\ log[k].step = "code_blocks"
        /\ log[k].n > 0
        /\ Matches("tenets", el)

\* ------------------------------------------------------------------------
\* Properties of the overflow pass (SpecCompress)
\* ------------------------------------------------------------------------
Overflows(shs) == shs # <<>> /\ actual_bottom(shs) > SLIDE_HEIGHT

\* the scale the pass computes is below 0.40
FloorHit(shs) ==
    /\ Overflows(shs)
    /\ actual_bottom(shs) - content_start(shs) > 0
    /\ 5 * (SLIDE_HEIGHT - 100 - content_start(shs))
           < 2 * (actual_bottom(shs) - content_start(shs))

Warned(n) == \E k \in 1..Len(warnings) : warnings[k] = n

\* C4 as stated: after the pass over a slide that overflowed, no shape's
\* bottom edge exceeds the canvas height, or the floor was applied and a
\* warning for the slide was appended.
C4_NoShapePastCanvas ==
    (pc = "compressed" /\ Overflows(placed))
        => \/ \A k \in 1..Len(shapes) :
                  shapes[k].top + shapes[k].height <= SLIDE_HEIGHT
           \/ scale.floored /\ Warned(slide_num)

\* C4, amended: after the pass over a slide that overflowed, no shape that
\* is not a table and whose top is at least 0.3 inch has its bottom edge past
\* the canvas height, or the floor was applied and a warning for the slide
\* was appended.
C4_NoPlainShapePastCanvas ==
    (pc = "compressed" /\ Overflows(placed))
        => \/ \A k \in 1..Len(shapes) :
                  \/ shapes[k].table
                  \/ shapes[k].top < 300
                  \/ shapes[k].top + shapes[k].height <= SLIDE_HEIGHT
           \/ scale.floored /\ Warned(slide_num)

\* a slide was compressed above the floor, a shape that is no table having
\* been past the canvas bottom, and a table still is
C4_Witness ==
    /\ pc = "compressed"
    /\ scale.applied /\ ~scale.floored
    /\ \E k \in 1..Len(placed) :
          ~placed[k].table /\ placed[k].top + placed[k].height > SLIDE_HEIGHT
    /\ \E k \in 1..Len(shapes) :
          shapes[k].table /\ shapes[k].top + shapes[k].height > SLIDE_HEIGHT

Count(seq, x) == Cardinality({k \in 1..Len(seq) : seq[k] = x})

\* C10: the scale applied is never below 0.40; the slide gets its warning
\* exactly when the computed scale was below 0.40; and the pass always
\* completes, after which the loop goes on to the later slides.
C10_FloorAndWarning ==
    /\ scale.applied => 5 * scale.num >= 2 * scale.den
    /\ pc = "compressed"
          => Count(warnings, slide_num) = IF FloorHit(placed) THEN 1 ELSE 0
    /\ pc = "placed" => ENABLED CompressSlide
    /\ pc = "compressed" => ENABLED NextSlide

\* the first slide hit the floor and the second was compressed after it
C10_Witness ==
    /\ pc = "compressed"
    /\ slide_num = 2
    /\ warnings = <<1>>
    /\ scale.applied

\* ------------------------------------------------------------------------
\* Helpers applied on their own (SpecHelpers)
\* ------------------------------------------------------------------------
\* a helper returns
Return ==
    /\ call # NoCall
    /\ call' = NoCall
    /\ UNCHANGED <<pc, slide_num, dom, placed, shapes, log, handled, warnings, scale>>
    /\ UNCHANGED <<palette, num_slides, deck, outputs>>
    /\ UNCHANGED fixer

\* get_rich_text(element): the runs of the strings of the element are merged
GetRichText ==
    /\ call = NoCall
    /\ \E runs \in RunSeqs(RichRuns) :
          call' = [fn |-> "get_rich_text", arg |-> runs, ret |-> rich_merge(runs)]
    /\ UNCHANGED <<pc, slide_num, dom, placed, shapes, log, handled, warnings, scale>>
    /\ UNCHANGED <<palette, num_slides, deck, outputs>>
    /\ UNCHANGED fixer

\* _extract_code_runs(code_el)
ExtractCodeRuns ==
    /\ call = NoCall
    /\ \E runs \in RunSeqs(CodeRuns) :
          call' = [fn |-> "_extract_code_runs", arg |-> runs, ret |-> code_merge(runs)]
    /\ UNCHANGED <<pc, slide_num, dom, placed, shapes, log, handled, warnings, scale>>
    /\ UNCHANGED <<palette, num_slides, deck, outputs>>
    /\ UNCHANGED fixer

\* the merge step of get_rich_text on a run sequence of any kind
MergeAnyRuns ==
    /\ call = NoCall
    /\ \E runs \in RunSeqs(Runs) :
          call' = [fn |-> "merge", arg |-> runs, ret |-> rich_merge(runs)]
    /\ UNCHANGED <<pc, slide_num, dom, placed, shapes, log, handled, warnings, scale>>
    /\ UNCHANGED <<palette, num_slides, deck, outputs>>
    /\ UNCHANGED fixer

\* a slide holding num elements of class tenet
TenetsDom(num) ==
    [centered |-> FALSE,
     nodes |-> [k \in 1..num |-> Node(0, "div", <<"tenet">>, 8, 0)] \o <<>>]

\* a slide holding one principles-grid of num principles
PrinciplesDom(num) ==
    [centered |-> FALSE,
     nodes |-> <<Node(0, "div", <<"principles-grid">>, 0, num)>>]

\* the cursors the column handlers are called with
Cursors == {600, 1720, 5475}

\* _handle_tenets(slide, elements, current_top, handled)
HandleTenets ==
    /\ call = NoCall
    /\ \E num \in 1..MaxItems : \E top \in Cursors :
          call' = [fn |-> "_handle_tenets", arg |-> [num |-> num, top |-> top],
                   ret |-> _handle_tenets(TenetsDom(num), 1..num, top)]
    /\ UNCHANGED <<pc, slide_num, dom, placed, shapes, log, handled, warnings, scale>>
    /\ UNCHANGED <<palette, num_slides, deck, outputs>>
    /\ UNCHANGED fixer

\* _handle_principles(slide, el, current_top, handled)
HandlePrinciples ==
    /\ call = NoCall
    /\ \E num \in 1..MaxItems : \E top \in Cursors :
          call' = [fn |-> "_handle_principles", arg |-> [num |-> num, top |-> top],
                   ret |-> _handle_principles(PrinciplesDom(num), 1, top)]
    /\ UNCHANGED <<pc, slide_num, dom, placed, shapes, log, handled, warnings, scale>>
    /\ UNCHANGED <<palette, num_slides, deck, outputs>>
    /\ UNCHANGED fixer

\* _resolve_color_vars() of a converter built from a deck with any style block
ResolveColorVars ==
    /\ call = NoCall
    /\ \E css \in CssVars :
          call' = [fn |-> "_resolve_color_vars", arg |-> css,
                   ret |-> _resolve_color_vars(css, resolve_accent_color(css))]
    /\ UNCHANGED <<pc, slide_num, dom, placed, shapes, log, handled, warnings, scale>>
    /\ UNCHANGED <<palette, num_slides, deck, outputs>>
    /\ UNCHANGED fixer

\* _handle_standalone_card: the content of the card goes to _make_card_frame
RenderCardFrame ==
    /\ call = NoCall
    /\ \E card \in Cards : \E data \in {extract_card_data(card)} :
          call' = [fn |-> "_make_card_frame", arg |-> card,
                   ret |-> [data |-> data, body |-> _make_card_frame(data)]]
    /\ UNCHANGED <<pc, slide_num, dom, placed, shapes, log, handled, warnings, scale>>
    /\ UNCHANGED <<palette, num_slides, deck, outputs>>
    /\ UNCHANGED fixer

\* _handle_card_grid: the content of the card goes to _populate_card_cell
RenderCardCell ==
    /\ call = NoCall
    /\ \E card \in Cards : \E data \in {extract_card_data(card)} :
          call' = [fn |-> "_populate_card_cell", arg |-> card,
                   ret |-> [data |-> data, body |-> _populate_card_cell(data)]]
    /\ UNCHANGED <<pc, slide_num, dom, placed, shapes, log, handled, warnings, scale>>
    /\ UNCHANGED <<palette, num_slides, deck, outputs>>
    /\ UNCHANGED fixer

\* _handle_feature_list(slide, el, current_top) of a converter made for a
\* deck whose style block is css
HandleFeatureList ==
    /\ call = NoCall
    /\ \E css \in ListStyles : \E has_li \in BOOLEAN :
       \E texts \in ItemTexts(has_li) : \E top \in {600} :
          call' = [fn |-> "_handle_feature_list",
                   arg |-> [color_vars |-> _resolve_color_vars(css, resolve_accent_color(css)),
                            texts |-> texts, has_li |-> has_li, top |-> top],
                   ret |-> feature_list(texts, has_li, top)]
    /\ UNCHANGED <<pc, slide_num, dom, placed, shapes, log, handled, warnings, scale>>
    /\ UNCHANGED <<palette, num_slides, deck, outputs>>
    /\ UNCHANGED fixer

\* _handle_code_block(slide, el, current_top)
HandleCodeBlock ==
    /\ call = NoCall
    /\ \E n \in 1..MaxCodeLines : \E trailing \in 0..1 : \E top \in Cursors :
          call' = [fn |-> "_handle_code_block",
                   arg |-> [text_lines |-> n, trailing |-> trailing, top |-> top],
                   ret |-> code_block(n, trailing, top)]
    /\ UNCHANGED <<pc, slide_num, dom, placed, shapes, log, handled, warnings, scale>>
    /\ UNCHANGED <<palette, num_slides, deck, outputs>>
    /\ UNCHANGED fixer

\* ------------------------------------------------------------------------
\* main of the style fixer: the loop over the files, then the summary
\* ------------------------------------------------------------------------
FixerInit ==
    /\ fx_pc = "loop"
    /\ fx_args \in [files : UNION {[1..n -> Paths] : n \in 1..MaxFiles},
                     dry_run : BOOLEAN, report : BOOLEAN, backup : BOOLEAN,
                     verbose : BOOLEAN, quiet : BOOLEAN]
    /\ \E a \in DiskDocs : \E abak \in BakDocs \cup {Absent} : \E b \in BakDocs \cup {Absent} :
          disk = [NoDisk EXCEPT !["a"] = a, !["a.bak"] = abak, !["b"] = b]
    /\ disk0 = disk
    /\ fx_idx = 1
    /\ fs_ops = <<>>
    /\ fx_out = <<>>
    /\ fx_totals = [fixed |-> 0, remaining |-> 0, processed |-> 0]

InitFix == ConverterInit /\ num_slides = 0 /\ FixerInit

\* one turn of the loop of main
ProcessFile ==
    /\ fx_pc = "loop"
    /\ fx_idx <= Len(fx_args.files)
    /\ \E filepath \in {fx_args.files[fx_idx]} :
          IF disk[filepath] = Absent
          THEN /\ fx_out' = Append(fx_out, [kind |-> "ERROR", path |-> filepath,
                                            fixed |-> 0, remaining |-> 0])
               /\ UNCHANGED <<disk, fs_ops, fx_totals>>
          ELSE \E r \in {fix_deck(disk[filepath])} :
               \E ops \in {file_ops(fx_args, filepath, disk[filepath], r.html)} :
                 /\ disk' = apply_ops(disk, ops)
                 /\ fs_ops' = fs_ops \o ops
                 /\ fx_out' = fx_out \o file_report(fx_args, filepath, r.changes)
                 /\ fx_totals' =
                       [fixed |-> fx_totals.fixed + Len(SelectSeq(r.changes, _is_fixable)),
                        remaining |-> fx_totals.remaining + Len(r.changes)
                                        - Len(SelectSeq(r.changes, _is_fixable)),
                        processed |-> fx_totals.processed + 1]
    /\ fx_idx' = fx_idx + 1
    /\ UNCHANGED <<fx_pc, fx_args, disk0>>
    /\ UNCHANGED <<pc, slide_num, dom, placed, shapes, log, handled, warnings, scale>>
    /\ UNCHANGED <<palette, num_slides, deck, outputs, call>>

\* the summary line after the loop
Summary ==
    /\ fx_pc = "loop"
    /\ fx_idx > Len(fx_args.files)
    /\ fx_pc' = "done"
    /\ fx_out' = IF fx_args.quiet \/ fx_totals.processed > 1
                  THEN Append(fx_out, [kind |-> IF fx_args.report \/ fx_args.dry_run
                                                THEN "reported" ELSE "fixed",
                                       path |-> "", fixed |-> fx_totals.fixed,
                                       remaining |-> fx_totals.remaining])
                  ELSE fx_out
    /\ UNCHANGED <<fx_args, disk, disk0, fx_idx, fs_ops, fx_totals>>
    /\ UNCHANGED <<pc, slide_num, dom, placed, shapes, log, handled, warnings, scale>>
    /\ UNCHANGED <<palette, num_slides, deck, outputs, call>>

NextFix == ProcessFile \/ Summary

SpecFix == InitFix /\ [][NextFix]_vars

\* phase1_css_variables(html) on a deck with the :root block
Phase1 ==
    /\ call = NoCall
    /\ \E decls \in RootDecls :
          call' = [fn |-> "phase1_css_variables", arg |-> decls,
                   ret |-> phase1_css_variables(
                               root_match([exists |-> TRUE, body |-> root_body_text(decls)]))]
    /\ UNCHANGED <<pc, slide_num, dom, placed, shapes, log, handled, warnings, scale>>
    /\ UNCHANGED <<palette, num_slides, deck, outputs>>
    /\ UNCHANGED fixer

\* phase2_css_rules(html) on a deck with one <style> block
Phase2 ==
    /\ call = NoCall
    /\ \E rules \in StyleRules :
          call' = [fn |-> "phase2_css_rules", arg |-> rules,
                   ret |-> phase2_css_rules(css_text(rules))]
    /\ UNCHANGED <<pc, slide_num, dom, placed, shapes, log, handled, warnings, scale>>
    /\ UNCHANGED <<palette, num_slides, deck, outputs>>
    /\ UNCHANGED fixer

\* phase4_inject_missing(html) on a deck with the :root block, and once
\* more on what it returned
Phase4 ==
    /\ call = NoCall
    /\ \E root \in RootBlocks :
       \E first \in {phase4_inject_missing(root_match(root))} :
          call' = [fn |-> "phase4_inject_missing", arg |-> root,
                   ret |-> [first |-> first,
                            root |-> with_body(root, first.body),
                            second |-> phase4_inject_missing(
                                           root_match(with_body(root, first.body)))]]
    /\ UNCHANGED <<pc, slide_num, dom, placed, shapes, log, handled, warnings, scale>>
    /\ UNCHANGED <<palette, num_slides, deck, outputs>>
    /\ UNCHANGED fixer

\* phase3_inline_styles(html) on a deck with the style attributes
Phase3 ==
    /\ call = NoCall
    /\ \E attrs \in UNION {[1..n -> StyleAttrs] : n \in 0..MaxAttrs} :
          call' = [fn |-> "phase3_inline_styles", arg |-> attrs,
                   ret |-> phase3_inline_styles(
                               [k \in 1..Len(attrs) |->
                                   [style |-> style_text(attrs[k].props),
                                    is_icon |-> attrs[k].is_icon]])]
    /\ UNCHANGED <<pc, slide_num, dom, placed, shapes, log, handled, warnings, scale>>
    /\ UNCHANGED <<palette, num_slides, deck, outputs>>
    /\ UNCHANGED fixer

NextHelpers ==
    \/ Phase1 \/ Phase2 \/ Phase3 \/ Phase4
    \/ HandleCodeBlock
    \/ HandleFeatureList
    \/ GetRichText \/ ExtractCodeRuns \/ MergeAnyRuns
    \/ HandleTenets \/ HandlePrinciples
    \/ ResolveColorVars
    \/ RenderCardFrame \/ RenderCardCell
    \/ Return

SpecHelpers == Init /\ [][NextHelpers]_vars

Apart(a, b) == a \notin Subtree(dom, b) /\ b \notin Subtree(dom, a)

\* C12: layout order is document order: when block A precedes block B in
\* the document, no shape rendered for A is placed lower than a shape
\* rendered for B (before the overflow pass).
C12_LayoutFollowsDocumentOrder ==
    \A i \in 1..Len(placed) : \A j \in 1..Len(placed) :
        (placed[i].el < placed[j].el /\ Apart(placed[i].el, placed[j].el))
            => placed[i].top <= placed[j].top

\* ------------------------------------------------------------------------
\* Properties of the column handlers (SpecHelpers)
\* ------------------------------------------------------------------------
ColumnCall == call.fn \in {"_handle_tenets", "_handle_principles"}

\* items of the call placed in column col
InColumn(col) ==
    Cardinality({i \in 0..(call.arg.num - 1) :
                    (IF call.arg.num >= 4 THEN i % 2 ELSE 0) = col})

\* the cursor of column col after the call
ColumnCursor(col) == call.arg.top + InColumn(col) * (1200 + GAP_TIGHT)

\* two columns exactly when there are four items or more, item i in column
\* i mod 2, each column with a cursor of its own from the incoming cursor
ColumnsAsStated ==
    \A i \in 0..(call.arg.num - 1) :
        LET two == call.arg.num >= 4
            col == IF two THEN i % 2 ELSE 0
            row == IF two THEN i \div 2 ELSE i
            bar == call.ret.shapes[2 * i + 1]
        IN /\ bar.left = CONTENT_LEFT + (IF two THEN col * 4400 ELSE 0)
           /\ bar.top = call.arg.top + row * (1200 + GAP_TIGHT)

\* C13 as stated: the columns, and the returned cursor is the maximum of
\* the column cursors plus one section gap (GAP_SECTION).
C13_ColumnsAndSectionGap ==
    ColumnCall =>
        /\ ColumnsAsStated
        /\ call.ret.top = Max(ColumnCursor(0), ColumnCursor(1)) + GAP_SECTION

\* C13, amended: the columns, and the returned cursor is the maximum of the
\* column cursors plus GAP_NORMAL.
C13_ColumnsAndNormalGap ==
    ColumnCall =>
        /\ ColumnsAsStated
        /\ call.ret.top = Max(ColumnCursor(0), ColumnCursor(1)) + GAP_NORMAL

\* five tenets were laid out in two columns, three in the left one
C13_Witness ==
    /\ call.fn = "_handle_tenets"
    /\ call.arg.num = 5
    /\ Len(call.ret.shapes) = 10
    /\ call.ret.shapes[3].left = CONTENT_LEFT + 4400
    /\ call.ret.top = call.arg.top + 3 * (1200 + GAP_TIGHT) + GAP_NORMAL

\* ------------------------------------------------------------------------
\* Properties of the header zone (Spec)
\* ------------------------------------------------------------------------
\* an element of a header kind that has text
HeaderEl(el) == Matches("header", el)

ContentBlock(el) ==
    /\ dom.nodes[el].parent = 0
    /\ ~HeaderEl(el)
    /\ HasAnyClass(dom, el, _content_trigger) \/ dom.nodes[el].tag = "table"

\* body text with text, a child of the slide before its first content block
EarlyBody(el) ==
    /\ dom.nodes[el].parent = 0
    /\ HasClass(dom, el, "body-text")
    /\ get_text(dom, el) > 0
    /\ \A c \in 1..el : ~ContentBlock(c)

HeaderEntries == {k \in Entries : log[k].step = "header"}

\* one frame at most, holding every element of Zone, none of which has a
\* shape from another step
OneHeaderFrame(Zone) ==
    /\ Cardinality(HeaderEntries) <= 1
    /\ \A k \in HeaderEntries : log[k].n = 1
    /\ \A el \in Zone : \E k \in HeaderEntries : el \in log[k].els
    /\ \A k \in Entries \ HeaderEntries :
          log[k].n > 0 => log[k].els \cap Zone = {}

\* C14 as stated: the header elements with text and the body text before
\* the first content block are all paragraphs of one single header frame,
\* and none of them gets a shape of its own.
C14_HeaderZoneInOneFrame ==
    OneHeaderFrame({el \in Elems(dom) : HeaderEl(el) \/ EarlyBody(el)})

\* C14, amended: the same, the body text before the first content block
\* belonging to the header zone only on a slide that has a header element
\* with text.
C14_HeaderZoneInOneFrameWhenHeaded ==
    OneHeaderFrame({el \in Elems(dom) :
                       \/ HeaderEl(el)
                       \/ EarlyBody(el) /\ \E e \in Elems(dom) : HeaderEl(e)})

\* a headline and the body text after it share the header frame
C14_Witness ==
    \E k \in HeaderEntries : \E a \in log[k].els : \E b \in log[k].els :
        /\ HasClass(dom, a, "headline")
        /\ HasClass(dom, b, "body-text") /\ ~HeaderEl(b)
        /\ Len(placed) = 1

\* ------------------------------------------------------------------------
\* Properties of the palette (SpecHelpers)
\* ------------------------------------------------------------------------
StandardNames == {"accent", "success", "warning", "danger", "blue", "text", "muted"}

Colors == (0..255) \X (0..255) \X (0..255)

\* the variable is declared with "#" and three or six hexadecimal digits
ParsableHex(css, name) ==
    /\ name \in DOMAIN css
    /\ startswith_hash(css[name])
    /\ LET h == Tail(css[name])
       IN Len(h) \in {3, 6} /\ \A i \in 1..Len(h) : IsHexDigit(h[i])

\* the table has a color for every standard name, and a standard name
\* without a parsable declaration has the color that defaults gives it
PaletteTotalWith(defaults) ==
    call.fn = "_resolve_color_vars" =>
        /\ StandardNames \subseteq DOMAIN call.ret
        /\ \A name \in DOMAIN call.ret : call.ret[name] \in Colors
        /\ \A name \in StandardNames :
              ~ParsableHex(call.arg, name) => call.ret[name] = defaults[name]

\* C15 as stated: the table is total on the standard names, and a standard
\* name that is undeclared or has no parsable #hex value maps to its
\* built-in default, the built-in accent being the blue.
C15_PaletteTotalBuiltInDefaults ==
    PaletteTotalWith(color_keywords(MS_BLUE))

\* C15, amended: the same, the default of accent being the accent color of
\* the deck (--color-accent, else --accent, else the blue).
C15_PaletteTotalDeckAccentDefault ==
    PaletteTotalWith(color_keywords(resolve_accent_color(call.arg)))

\* a deck declares --success with a value that does not parse and another
\* variable with one that does
C15_Witness ==
    /\ call.fn = "_resolve_color_vars"
    /\ "success" \in DOMAIN call.arg
    /\ startswith_hash(call.arg["success"])
    /\ ~ParsableHex(call.arg, "success")
    /\ call.ret["success"] = MS_GREEN
    /\ "brand" \in DOMAIN call.ret

\* ------------------------------------------------------------------------
\* Properties of convert and main (Spec)
\* ------------------------------------------------------------------------
\* C16: every diagnostic is collected in the warnings list of the converter
\* (none is issued another way), the list is printed only after the whole
\* deck has been produced and saved, and the deck holds every slide
\* whatever was warned.
C16_WarningsCollectedAndReportedLast ==
    /\ py_warnings = <<>>
    /\ stderr # <<>> => pc = "reported"
    /\ pc = "reported" => stderr = warnings /\ Len(saved) = num_slides

\* C17: the deck holds exactly one slide per input slide, in document order,
\* and a slide is rendered and its overflow pass is done before the next
\* slide is begun.
C17_OneSlidePerInputInOrder ==
    /\ Len(deck) = slide_num
    /\ \A k \in 1..Len(deck) : deck[k] = k
    /\ pc \in {"done", "saved", "reported"} => Len(deck) = num_slides
    /\ pc = "loop" => placed = <<>> /\ shapes = <<>> /\ log = <<>>
    /\ (pc = "slide_done" /\ Overflows(placed)) => scale.applied

\* two slides were converted, the first of them with an overflow
C17_Witness ==
    /\ pc = "done"
    /\ num_slides = 2
    /\ deck = <<1, 2>>
    /\ warnings = <<1>>

NonTrivialTops == {placed[k].top : k \in {j \in 1..Len(placed) : placed[j].top >= 300}}

\* the top of the first non-trivial shape
StatedStart == CHOOSE t \in NonTrivialTops : \A u \in NonTrivialTops : t <= u

\* the greatest top + height over all shapes
StatedBottom ==
    CHOOSE b \in Bottoms(placed) : \A c \in Bottoms(placed) : b >= c

\* C24: when the pass compresses a slide that has a shape at 0.3 inch or
\* lower, the scale is (canvas_height - 0.1 - content_start) /
\* (actual_bottom - content_start), or 0.40 when that is smaller, and every
\* shape at or below content_start gets the top
\* content_start + floor((old top - content_start) * scale).
C24_ScaleAsStated ==
    (pc = "compressed" /\ scale.applied /\ NonTrivialTops # {}) =>
        LET num == SLIDE_HEIGHT - 100 - StatedStart
            den == StatedBottom - StatedStart
        IN /\ IF 5 * num < 2 * den
              THEN 5 * scale.num = 2 * scale.den
              ELSE scale.num * den = num * scale.den
           /\ \A k \in 1..Len(placed) :
                 placed[k].top >= StatedStart =>
                     shapes[k].top = StatedStart
                         + ((placed[k].top - StatedStart) * scale.num) \div scale.den

\* a slide with shapes at 0.4 and 5.475 inch was compressed above the
\* floor, and the lower shape was moved up towards the upper one
C24_Witness ==
    /\ pc = "compressed"
    /\ scale.applied /\ ~scale.floored
    /\ Len(placed) = 2
    /\ placed[1].top = 400
    /\ placed[2].top = 5475
    /\ shapes[1].top = 400
    /\ shapes[2].top < placed[2].top
    /\ shapes[2].top > StatedStart

\* ------------------------------------------------------------------------
\* C29: the inline color fix (SpecHelpers)
\* ------------------------------------------------------------------------
Phase3Call == call # NoCall /\ call.fn = "phase3_inline_styles"

\* the place of the value of property k in the text of the style
ValueAt(props, k) ==
    Len(style_text(SubSeq(props, 1, k - 1))) + Len(prop_name_text(props[k].name)) + 3

\* the color property the fix matches: the first one, 0 when there is none
MatchedColor(props) ==
    IF \E k \in 1..Len(props) : props[k].name = "color"
    THEN CHOOSE k \in 1..Len(props) :
             /\ props[k].name = "color"
             /\ \A j \in 1..(k - 1) : props[j].name # "color"
    ELSE 0

\* the color fix applies to the attribute
ColorFixed(props) ==
    /\ MatchedColor(props) # 0
    /\ _fix_inline_text_color(props[MatchedColor(props)].value) # NoFix

ColorNames == {"color", "background-color", "border-color"}

\* C29: the inline color fix changes only the value of the color property
\* it matched: the color, background-color and border-color properties of
\* the attribute keep their values, except the matched color property,
\* which carries the fixed value after the phase.
C29_OnlyMatchedColorChanged ==
    Phase3Call =>
        \A a \in 1..Len(call.arg) :
            LET props == call.arg[a].props
                out == call.ret.attrs[a].style
            IN /\ Len(out) = Len(style_text(props))
               /\ \A k \in 1..Len(props) :
                     props[k].name \in ColorNames =>
                         out[ValueAt(props, k)] =
                             IF ColorFixed(props) /\ k = MatchedColor(props)
                             THEN _fix_inline_text_color(props[k].value)
                             ELSE props[k].value

\* the same holds of the attributes in which no property before the
\* matched color carries its value
C29_HoldsWithoutEarlierValue ==
    Phase3Call =>
        \A a \in 1..Len(call.arg) :
            LET props == call.arg[a].props
                out == call.ret.attrs[a].style
            IN (ColorFixed(props) =>
                   \A j \in 1..(MatchedColor(props) - 1) :
                       props[j].value # props[MatchedColor(props)].value)
               => /\ Len(out) = Len(style_text(props))
                  /\ \A k \in 1..Len(props) :
                        props[k].name \in ColorNames =>
                            out[ValueAt(props, k)] =
                                IF ColorFixed(props) /\ k = MatchedColor(props)
                                THEN _fix_inline_text_color(props[k].value)
                                ELSE props[k].value

\* a style with a background-color and a color of the same too-dark value
\* went through the phase and the color fix was reported
C29_Reached ==
    /\ Phase3Call
    /\ Len(call.arg) = 1
    /\ call.arg[1].props = <<[name |-> "background-color", value |-> "#333"],
                             [name |-> "color", value |-> "#333"]>>
    /\ \E c \in 1..Len(call.ret.changes) : call.ret.changes[c].category = "color"

\* ------------------------------------------------------------------------
\* C28: the injection of phase 4 (SpecHelpers)
\* ------------------------------------------------------------------------
Phase4Call == call # NoCall /\ call.fn = "phase4_inject_missing"

\* one of the seven surface variables is declared in the block
SurfaceDeclared(body) ==
    \E i \in 1..Len(VarDecls(body, 1)) : \E v \in 1..Len(_SURFACE_VARS) :
        VarDecls(body, 1)[i].name = _SURFACE_VARS[v]

\* the phase reported the injection and the block ends with the seven
\* declarations
Injected(before, r) ==
    /\ Len(r.changes) = 1
    /\ r.changes[1].category = "inject"
    /\ Len(VarDecls(r.body, 1)) = Len(VarDecls(before, 1)) + 7
    /\ \A v \in 1..7 :
          VarDecls(r.body, 1)[Len(VarDecls(before, 1)) + v].name = _SURFACE_VARS[v]

\* C28: phase4_inject_missing injects the surface block exactly when the
\* deck has a :root block in which none of the seven surface variables is
\* declared, and applied to its own output it returns the deck unchanged
\* and reports no change.
C28_InjectsExactlyWhenMissing ==
    Phase4Call =>
        /\ IF call.arg.exists /\ ~SurfaceDeclared(call.arg.body)
           THEN Injected(call.arg.body, call.ret.first)
           ELSE call.ret.first.changes = <<>> /\ call.ret.root = call.arg
        /\ call.ret.second.changes = <<>>
        /\ with_body(call.ret.root, call.ret.second.body) = call.ret.root

\* the part of C28 that holds of every block: the phase injects only into
\* a :root block without a surface variable, and is idempotent
C28_InjectsOnlyWhenMissingAndIdempotent ==
    Phase4Call =>
        /\ call.ret.first.changes # <<>> =>
              /\ call.arg.exists /\ ~SurfaceDeclared(call.arg.body)
              /\ Injected(call.arg.body, call.ret.first)
        /\ call.ret.first.changes = <<>> => call.ret.root = call.arg
        /\ call.ret.second.changes = <<>>
        /\ with_body(call.ret.root, call.ret.second.body) = call.ret.root

\* a deck written :root{} went through the phase and nothing was injected
C28_Reached ==
    /\ Phase4Call
    /\ call.arg = [exists |-> TRUE, body |-> <<>>]
    /\ call.ret.first.changes = <<>>
    /\ call.ret.root = call.arg

\* ------------------------------------------------------------------------
\* C27: the font sizes phase 2 changes (SpecHelpers)
\* ------------------------------------------------------------------------
Phase2Call == call # NoCall /\ call.fn = "phase2_css_rules"

\* C27: phase2_css_rules modifies no font-size inside an @media block, and
\* modifies one outside only if the selector of its own rule has a minimum
\* and the value is below it, and then the value becomes that minimum.
C27_OnlyOwnRuleOutsideMedia ==
    Phase2Call =>
        LET after == parse_rules(call.ret.css, 1)
        IN /\ Len(after) = Len(call.arg)
           /\ \A i \in 1..Len(call.arg) :
                 /\ call.arg[i].media => after[i].px = call.arg[i].px
                 /\ after[i].px # call.arg[i].px =>
                       /\ selector_minimum(call.arg[i].selector) > 0
                       /\ px_value(call.arg[i].px) < selector_minimum(call.arg[i].selector)
                       /\ px_value(after[i].px) = selector_minimum(call.arg[i].selector)

\* the block @media { p { font-size: 12px; } } p { font-size: 12px; } went
\* through the phase: the size inside @media is 14px, the one outside 12px
C27_Reached ==
    /\ Phase2Call
    /\ call.arg = <<[media |-> TRUE, selector |-> "p", spaced |-> TRUE, px |-> "12"],
                    [media |-> FALSE, selector |-> "p", spaced |-> TRUE, px |-> "12"]>>
    /\ parse_rules(call.ret.css, 1)[1].px = "14"
    /\ parse_rules(call.ret.css, 1)[2].px = "12"
    /\ Len(call.ret.changes) = 1

\* ------------------------------------------------------------------------
\* C26: the variables phase 1 must not touch (SpecHelpers)
\* ------------------------------------------------------------------------
Phase1Call == call # NoCall /\ call.fn = "phase1_css_variables"

\* C26: phase1_css_variables never modifies the value of a variable that
\* is classified accent, bg or unknown: after the phase the block declares
\* the same variables in the same order and each such variable has the
\* value it was declared with, whatever else is fixed in the block.
C26_ProtectedVariablesKept ==
    Phase1Call =>
        LET after == VarDecls(call.ret.body, 1)
        IN /\ Len(after) = Len(call.arg)
           /\ \A i \in 1..Len(call.arg) :
                 /\ after[i].name = call.arg[i].name
                 /\ classify_variable(call.arg[i].name) \in {"accent", "bg", "unknown"}
                       => after[i].value = <<call.arg[i].value>>

\* the block --accent--text: #333; --text: #333; went through the phase,
\* which reported the fix of --text
C26_Reached ==
    /\ Phase1Call
    /\ Len(call.arg) = 2
    /\ call.arg[1] = [name |-> <<"--", "accent", "--", "text">>, value |-> "#333", spaced |-> TRUE]
    /\ call.arg[2] = [name |-> <<"--", "text">>, value |-> "#333", spaced |-> TRUE]
    /\ Len(call.ret.changes) = 1
    /\ call.ret.changes[1].location = <<"--", "text">>
    /\ VarDecls(call.ret.body, 1)[1].value = <<"#767676">>
    /\ VarDecls(call.ret.body, 1)[2].value = <<"#333">>

\* when no declaration written "name: value;" ends with the name and has
\* the value of another one, the variables classified accent, bg or
\* unknown keep their values
C26_KeptWithoutSuffixClash ==
    (Phase1Call /\ \A i, j \in 1..Len(call.arg) :
                      (i # j /\ call.arg[j].spaced /\ call.arg[i].value = call.arg[j].value)
                          => Find(call.arg[j].name, call.arg[i].name) = 0) =>
        LET after == VarDecls(call.ret.body, 1)
        IN \A i \in 1..Len(call.arg) :
               classify_variable(call.arg[i].name) \in {"accent", "bg", "unknown"}
                   => after[i].value = <<call.arg[i].value>>

\* ------------------------------------------------------------------------
\* C25: what the overflow pass leaves alone (SpecCompress)
\* ------------------------------------------------------------------------
\* content_start as the pass takes it: the least top that is at least 0.3
\* inch, 0.3 inch when there is none
FrameStart == IF NonTrivialTops = {} THEN 300 ELSE StatedStart

\* C25: the pass changes nothing and appends no warning when the lowest
\* bottom is within the canvas; when it compresses, the number and order of
\* the shapes stay, every shape above content_start stays as it was, a
\* table keeps its height, and only the top (and for a shape that is not a
\* table the height) of the shapes at or below content_start changes.
C25_CompressorFrame ==
    pc = "compressed" =>
        /\ ~Overflows(placed) =>
              /\ shapes = placed
              /\ ~scale.applied
              /\ Count(warnings, slide_num) = 0
        /\ Len(shapes) = Len(placed)
        /\ \A k \in 1..Len(placed) :
              /\ shapes[k].table = placed[k].table
              /\ placed[k].table => shapes[k].height = placed[k].height
              /\ placed[k].top < FrameStart => shapes[k] = placed[k]
              /\ ~scale.applied => shapes[k] = placed[k]

\* a slide was compressed: the table below content_start was moved up and
\* kept its height, the shape at content_start got a smaller height
C25_Witness ==
    /\ pc = "compressed"
    /\ scale.applied
    /\ Len(placed) = 2
    /\ placed[1].top = 400 /\ ~placed[1].table
    /\ shapes[1].top = 400 /\ shapes[1].height < placed[1].height
    /\ placed[2].table
    /\ placed[2].top = 6000 /\ placed[2].height = 1500
    /\ shapes[2].top < 6000
    /\ shapes[2].height = 1500

\* ------------------------------------------------------------------------
\* C30: the vertical order through the overflow pass (SpecCompress)
\* ------------------------------------------------------------------------
\* C30: the overflow pass preserves the vertical order: two shapes whose
\* tops were in the order top(a) <= top(b) before the pass are in that
\* order after it, and no shape's top is moved above content_start or
\* below where it was.
C30_OrderPreserved ==
    pc = "compressed" =>
        /\ \A a, b \in 1..Len(placed) :
              placed[a].top <= placed[b].top => shapes[a].top <= shapes[b].top
        /\ \A k \in 1..Len(placed) :
              /\ shapes[k].top <= placed[k].top
              /\ placed[k].top >= FrameStart => shapes[k].top >= FrameStart

\* a slide with shapes at 0.6 and 6.0 inch was compressed: the lower one
\* was moved up and is still below the upper one
C30_Witness ==
    /\ pc = "compressed"
    /\ scale.applied
    /\ Len(placed) = 2
    /\ placed[1].top = 600 /\ placed[2].top = 6000
    /\ shapes[1].top = 600
    /\ shapes[2].top > 600 /\ shapes[2].top < 6000

\* ------------------------------------------------------------------------
\* C23: the shapes of an invocation and its cursors (Spec)
\* ------------------------------------------------------------------------
\* the shapes placed before the k-th invocation of the pass
RECURSIVE PlacedBefore(_)
PlacedBefore(k) == IF k <= 1 THEN 0 ELSE PlacedBefore(k - 1) + log[k - 1].n

\* the places in placed of the shapes of the k-th invocation
ShapesOf(k) == (PlacedBefore(k) + 1)..(PlacedBefore(k) + log[k].n)

\* C23: conservative advancement: every shape a renderer invocation emits
\* lies between the cursor the invocation was given and the cursor it
\* returns: its top is at least the incoming cursor and its bottom at most
\* the returned cursor.  The header zone, which process_slide lays out
\* itself, is not a renderer.
C23_ShapesBetweenCursors ==
    \A k \in Entries : \A j \in ShapesOf(k) :
        log[k].step # "header" =>
            /\ placed[j].top >= log[k].top_in
            /\ placed[j].top + placed[j].height <= log[k].top_out

\* the shapes of placed are those of the invocations, in their order
C23_ShapesAreLogged ==
    /\ Len(placed) = PlacedBefore(Len(log) + 1)
    /\ \A k \in Entries : \A j \in ShapesOf(k) : placed[j].by = log[k].step

\* ------------------------------------------------------------------------
\* C22: the writes of the style fixer (SpecFix)
\* ------------------------------------------------------------------------
\* C22: with --report or --dry-run no file is written or copied and the
\* files stay as they were; otherwise a file is written only with a
\* content fix_deck made different from the one read, a .bak copy of the
\* content read is made only with --backup and only right before such a
\* write, and with --backup every write has its copy before it.
C22_WritesOnlyChangedFiles ==
    /\ (fx_args.report \/ fx_args.dry_run) => (fs_ops = <<>> /\ disk = disk0)
    /\ disk = apply_ops(disk0, fs_ops)
    /\ \A k \in 1..Len(fs_ops) :
          /\ fs_ops[k].op = "write" =>
                /\ fs_ops[k].new # fs_ops[k].old
                /\ fs_ops[k].new = fix_deck(fs_ops[k].old).html
                /\ fx_args.backup =>
                      /\ k > 1
                      /\ fs_ops[k - 1] = [op |-> "copy", path |-> bak(fs_ops[k].path),
                                          old |-> fs_ops[k].old, new |-> fs_ops[k].old]
          /\ fs_ops[k].op = "copy" =>
                /\ fx_args.backup
                /\ k < Len(fs_ops)
                /\ fs_ops[k + 1].op = "write"
                /\ bak(fs_ops[k + 1].path) = fs_ops[k].path

\* a run with --backup has copied the deck a to a.bak and then rewritten it
C22_Witness ==
    /\ fx_pc = "done"
    /\ fx_args.backup /\ ~fx_args.report /\ ~fx_args.dry_run
    /\ Len(fs_ops) = 2
    /\ fs_ops[1].op = "copy" /\ fs_ops[2].op = "write"
    /\ disk["a.bak"] = disk0["a"]
    /\ disk["a"] # disk0["a"]
    /\ disk["a"] = fix_deck(disk0["a"]).html

\* ------------------------------------------------------------------------
\* C21: the font size of a code block
\* ------------------------------------------------------------------------
CodeCall == call # NoCall /\ call.fn = "_handle_code_block"

\* the tiers as the claim lists them
StatedTier(n) ==
    CASE n <= 12 -> 12
      [] n \in 13..18 -> 11
      [] n \in 19..25 -> 10
      [] OTHER -> 9

\* C21: the font size of a code block is the tier of its line count (12 up
\* to 12 lines, 11 for 13-18, 10 for 19-25, 9 above 25), every line is
\* rendered at it, and no block with fewer lines gets a smaller size.
C21_FontSizeStepsDown ==
    CodeCall =>
        /\ call.ret.font_size = StatedTier(call.arg.text_lines)
        /\ Len(call.ret.paragraphs) = call.arg.text_lines
        /\ \A i \in 1..Len(call.ret.paragraphs) :
              call.ret.paragraphs[i] = call.ret.font_size
        /\ \A m \in 1..call.arg.text_lines :
              code_font_size(m) >= call.ret.font_size

\* a block of 30 lines was rendered at 9 pt
C21_Witness ==
    /\ CodeCall
    /\ call.arg.text_lines = 30
    /\ call.ret.font_size = 9
    /\ Len(call.ret.paragraphs) = 30

\* ------------------------------------------------------------------------
\* C20: the paragraphs of a feature list
\* ------------------------------------------------------------------------
ListCall == call # NoCall /\ call.fn = "_handle_feature_list" /\ call.arg.has_li

\* the color the claim gives an item: by the glyph the item starts with
StatedColor(t, table) ==
    CASE t = "check" -> table["success"]
      [] t \in {"cross", "cross_check"} -> table["danger"]
      [] OTHER -> WHITE

\* C20: a list of n items is rendered as one text frame with exactly n
\* paragraphs in item order; an item that starts with the check glyph has
\* the success color of the deck's table, one that starts with the cross
\* glyph its danger color, every other item the default text color.
C20_ListParagraphsColoredByPalette ==
    ListCall =>
        /\ Len(call.ret.frames) = 1
        /\ LET tf == call.ret.frames[1]
               texts == call.arg.texts
           IN /\ Len(tf) = Len(texts)
              /\ \A i \in 1..Len(texts) :
                    tf[i] = <<[text |-> texts[i],
                               color |-> StatedColor(texts[i], call.arg.color_vars)]>>

\* the same with the built-in green and red instead of the deck's table,
\* for lists without an empty item: the part of C20 the code does keep
C20_ListParagraphsColoredByConstants ==
    (ListCall /\ \A i \in 1..Len(call.arg.texts) :
                    call.arg.texts[i] \in {"plain", "check", "cross"}) =>
        /\ Len(call.ret.frames) = 1
        /\ LET tf == call.ret.frames[1]
               texts == call.arg.texts
           IN /\ Len(tf) = Len(texts)
              /\ \A i \in 1..Len(texts) :
                    tf[i] = <<[text |-> texts[i],
                               color |-> StatedColor(texts[i], color_keywords(MS_BLUE))]>>

\* a list of check, check, cross was rendered for a deck that declares its
\* own success color
C20_Reached ==
    /\ ListCall
    /\ call.arg.texts = <<"check", "check", "cross">>
    /\ call.arg.color_vars["success"] # MS_GREEN
    /\ Len(call.ret.frames[1]) = 3

\* ------------------------------------------------------------------------
\* C19: the body of a card
\* ------------------------------------------------------------------------
CardCall == call # NoCall /\ call.fn \in {"_make_card_frame", "_populate_card_cell"}

\* the text the card's body comes from has a run that is bold, italic or
\* colored
HasFormattedRuns(card) == card.formatted /\ HasText(card.lines)

\* the runs are those of the body element of a generic card without a list
RunsAreCollected(card) ==
    /\ HasFormattedRuns(card)
    /\ card.kind = "card"
    /\ card.source = "element"

\* the plain body is rendered as the claim says: one paragraph per
\* non-empty line when there are several and one starts with a bullet
\* glyph, else one paragraph
PlainAsStated(body, out) ==
    LET lines == NonEmpty(body)
        listed == /\ Len(lines) > 1
                  /\ \E i \in 1..Len(lines) : lines[i] \in {"bullet", "check", "cross"}
    IN IF listed THEN out.mode = "bullets" /\ out.n = Len(lines)
       ELSE out.mode = "prose" /\ out.n = 1

\* C19 as stated: whenever the body of a card has runs of which one is
\* bold, italic or colored the card is rendered from the runs; otherwise a
\* plain body is rendered as a bulleted list or as one prose paragraph.
C19_RichRunsWheneverFormatted ==
    CardCall =>
        IF HasFormattedRuns(call.arg)
        THEN call.ret.body.mode = "rich"
        ELSE call.ret.data.body # <<>> => PlainAsStated(call.ret.data.body, call.ret.body)

\* C19 as the code has it: the runs are used whenever the card is a
\* generic card without a list whose body element has a bold, italic or
\* colored run; every other card is rendered from its plain body, a module
\* card in a grid cell as a contract and a purpose paragraph, any other as
\* a bulleted list when it has several non-empty lines and one starts with
\* a bullet glyph and else as one prose paragraph.
C19_RichRunsWhenCollected ==
    CardCall =>
        IF RunsAreCollected(call.arg)
        THEN call.ret.body.mode = "rich" /\ call.ret.data.body = <<>>
        ELSE /\ ~call.ret.data.body_runs
             /\ call.ret.body.mode # "rich"
             /\ call.ret.data.body = <<>> => call.ret.body.mode = "none"
             /\ call.ret.data.body # <<>> =>
                   IF call.fn = "_populate_card_cell" /\ call.arg.kind = "module-card"
                   THEN call.ret.body.mode = "module"
                   ELSE PlainAsStated(call.ret.data.body, call.ret.body)

\* a generic card whose body element has a bold run was rendered from its
\* runs, in a grid cell
C19_Witness ==
    /\ CardCall
    /\ call.fn = "_populate_card_cell"
    /\ RunsAreCollected(call.arg)
    /\ call.arg.title
    /\ call.ret.body.mode = "rich"
====
